---------------------------- MODULE Spec2Model ----------------------------
(***************************************************************************)
(* A model of docu-notion's image persistence pipeline (images.ts):        *)
(* initImageHandling, parseImageBlock, processImageBlock, readPrimaryImage,*)
(* makeImagePersistencePlanWithoutBuffer, saveImage, saveLocalizedImages,  *)
(* imageWasSeen, cleanupOldImages and markdownToMDImageTransformer.        *)
(*                                                                         *)
(* A JavaScript string is a sequence of one-character strings, so that     *)
(* split, replace, regular expressions and path joins are computed the way *)
(* the code computes them.  A Buffer is an opaque byte value (a string).   *)
(***************************************************************************)
EXTENDS Integers, Sequences, FiniteSets, TLC

(***************************************************************************)
(* String primitives                                                       *)
(***************************************************************************)
Range(s) == {s[i] : i \in 1..Len(s)}

Last(s) == s[Len(s)]

\* Whether t occurs in s starting at index i (1-based).
OccursAt(s, t, i) ==
    /\ i >= 1
    /\ i + Len(t) - 1 <= Len(s)
    /\ \A k \in 1..Len(t) : s[i + k - 1] = t[k]

StartsWith(s, t) == OccursAt(s, t, 1)

EndsWith(s, t) == OccursAt(s, t, Len(s) - Len(t) + 1)

SetMin(S) == CHOOSE x \in S : \A y \in S : x <= y

SetMax(S) == CHOOSE x \in S : \A y \in S : x >= y

\* JavaScript's \s on the modelled alphabet.
IsSpace(c) == c \in {" ", "\t"}

\* String.prototype.split(sep) for a one-character separator: the pieces
\* between the separators, empty pieces included.
SplitChar(s, sep) ==
    LET cuts  == {i \in 1..Len(s) : s[i] = sep}
        marks == {0} \cup cuts \cup {Len(s) + 1}
        Nxt(i) == SetMin({j \in marks : j > i})
        starts == {0} \cup cuts
        RECURSIVE Pieces(_)
        Pieces(i) == IF i > Len(s) THEN <<>>
                     ELSE <<SubSeq(s, i + 1, Nxt(i) - 1)>> \o Pieces(Nxt(i))
    IN  Pieces(0)

\* Array.prototype.join(sep) for a sequence of strings.
RECURSIVE JoinWith(_, _)
JoinWith(parts, sep) ==
    IF parts = <<>> THEN <<>>
    ELSE IF Len(parts) = 1 THEN parts[1]
    ELSE parts[1] \o sep \o JoinWith(Tail(parts), sep)

\* String.prototype.replaceAll(pat, rep): left to right, non-overlapping,
\* one pass (the replaced text is not scanned again).
RECURSIVE ReplaceAllFrom(_, _, _, _)
ReplaceAllFrom(s, pat, rep, i) ==
    IF i > Len(s) THEN <<>>
    ELSE IF OccursAt(s, pat, i)
         THEN rep \o ReplaceAllFrom(s, pat, rep, i + Len(pat))
         ELSE <<s[i]>> \o ReplaceAllFrom(s, pat, rep, i + 1)

ReplaceAll(s, pat, rep) == ReplaceAllFrom(s, pat, rep, 1)

\* String.prototype.trim().
Trim(s) ==
    LET keep == {i \in 1..Len(s) : ~IsSpace(s[i])}
    IN  IF keep = {} THEN <<>> ELSE SubSeq(s, SetMin(keep), SetMax(keep))

UpperChars ==
    <<"A","B","C","D","E","F","G","H","I","J","K","L","M",
      "N","O","P","Q","R","S","T","U","V","W","X","Y","Z">>

LowerChars ==
    <<"a","b","c","d","e","f","g","h","i","j","k","l","m",
      "n","o","p","q","r","s","t","u","v","w","x","y","z">>

ToLowerChar(c) ==
    IF c \in Range(UpperChars)
    THEN LowerChars[CHOOSE i \in 1..Len(UpperChars) : UpperChars[i] = c]
    ELSE c

\* String.prototype.toLowerCase().
ToLowerCase(s) == [i \in 1..Len(s) |-> ToLowerChar(s[i])]

HexDigits == <<"0","1","2","3","4","5","6","7","8","9","a","b","c","d","e","f">>

IsHexChar(c) == ToLowerChar(c) \in Range(HexDigits)


(***************************************************************************)
(* Character codes, hashing                                                *)
(***************************************************************************)
\* The printable ASCII characters, code 32 (space) to 126 (~), in order; the
\* double quote (34), the backslash (92) and the backtick (96) are written as
\* names.
Ascii ==
    <<
      " ","!","DQUOTE","#","$","%","&","'","(",")","*","+",",","-",".","/",
      "0","1","2","3","4","5","6","7","8","9",":",";","<","=",">","?",
      "@","A","B","C","D","E","F","G","H","I","J","K","L","M","N","O",
      "P","Q","R","S","T","U","V","W","X","Y","Z","[","BACKSLASH","]","^","_",
      "BACKTICK","a","b","c","d","e","f","g","h","i","j","k","l","m","n","o",
      "p","q","r","s","t","u","v","w","x","y","z","{","|","}","~" >>

CharCode(c) ==
    IF c = "\t" THEN 9
    ELSE IF c = "\n" THEN 10
    ELSE IF c = "\r" THEN 13
    ELSE 31 + (CHOOSE i \in 1..Len(Ascii) : Ascii[i] = c)

HexValue(c) == (CHOOSE i \in 1..16 : HexDigits[i] = ToLowerChar(c)) - 1

\* A polynomial hash of the character codes, 16 bits wide.
RECURSIVE PolyHash(_, _, _)
PolyHash(s, mult, acc) ==
    IF s = <<>> THEN acc
    ELSE PolyHash(Tail(s), mult, (acc * mult + CharCode(Head(s))) % 65536)

Hex4(n) ==
    << HexDigits[((n \div 4096) % 16) + 1], HexDigits[((n \div 256) % 16) + 1],
       HexDigits[((n \div 16) % 16) + 1],   HexDigits[(n % 16) + 1] >>

\* hashOfString: the first 8 hex characters of a digest of the input.  The
\* digest (SHA-256 in the code) is a pair of 16-bit polynomial hashes here:
\* a deterministic function of the input string and of nothing else.
hashOfString(input) == Hex4(PolyHash(input, 31, 7)) \o Hex4(PolyHash(input, 131, 3))

(***************************************************************************)
(* findLastUuid: the last of the leftmost, non-overlapping matches of      *)
(* /[0-9a-f]{8}-[0-9a-f]{4}-[0-9a-f]{4}-[0-9a-f]{4}-[0-9a-f]{12}/gi        *)
(***************************************************************************)
UuidLength == 36

UuidDashOffsets == {9, 14, 19, 24}

UuidAt(s, i) ==
    /\ i >= 1
    /\ i + UuidLength - 1 <= Len(s)
    /\ \A k \in 1..UuidLength :
          IF k \in UuidDashOffsets THEN s[i + k - 1] = "-"
          ELSE IsHexChar(s[i + k - 1])

\* The start indexes String.prototype.match finds with the g flag, scanning
\* from index i: after a match the scan resumes behind it.
RECURSIVE UuidMatchesFrom(_, _)
UuidMatchesFrom(s, i) ==
    IF i + UuidLength - 1 > Len(s) THEN <<>>
    ELSE IF UuidAt(s, i) THEN <<i>> \o UuidMatchesFrom(s, i + UuidLength)
    ELSE UuidMatchesFrom(s, i + 1)

\* [found |-> FALSE] stands for null.
findLastUuid(url) ==
    LET matches == UuidMatchesFrom(url, 1)
    IN  IF matches = <<>> THEN [found |-> FALSE, uuid |-> <<>>]
        ELSE [found |-> TRUE,
              uuid  |-> SubSeq(url, Last(matches), Last(matches) + UuidLength - 1)]

(***************************************************************************)
(* decodeURI and Path.posix.join                                           *)
(***************************************************************************)
\* The characters decodeURI leaves escaped: ; / ? : @ & = + $ , #
UriReserved == {";", "/", "?", ":", "@", "&", "=", "+", "$", ",", "#"}

\* Whether a %XX escape starts at index i.
EscapeAt(s, i) ==
    /\ i + 2 <= Len(s)
    /\ s[i] = "%"
    /\ IsHexChar(s[i + 1])
    /\ IsHexChar(s[i + 2])

EscapeCode(s, i) == 16 * HexValue(s[i + 1]) + HexValue(s[i + 2])

\* decodeURI throws URIError on a percent sign that starts no escape, and on an escape
\* that is not part of a well-formed UTF-8 sequence; on the modelled alphabet
\* every escape of 128 and above is a lone byte, hence malformed.
DecodeURIThrows(s) ==
    \E i \in 1..Len(s) :
        /\ s[i] = "%"
        /\ \/ ~EscapeAt(s, i)
           \/ EscapeCode(s, i) >= 128

RECURSIVE DecodeURIFrom(_, _)
DecodeURIFrom(s, i) ==
    IF i > Len(s) THEN <<>>
    ELSE IF EscapeAt(s, i)
              /\ EscapeCode(s, i) \in 32..126
              /\ Ascii[EscapeCode(s, i) - 31] \notin UriReserved
         THEN <<Ascii[EscapeCode(s, i) - 31]>> \o DecodeURIFrom(s, i + 3)
         ELSE <<s[i]>> \o DecodeURIFrom(s, i + 1)

\* decodeURI(s) where it does not throw.
DecodeURI(s) == DecodeURIFrom(s, 1)

\* normalizeString of the path module: empty and one-dot segments are dropped
\* and a two-dot segment removes the segment before it.
RECURSIVE NormalizeSegments(_, _, _)
NormalizeSegments(segs, acc, isAbsolute) ==
    IF segs = <<>> THEN acc
    ELSE LET seg == Head(segs)
         IN  IF seg = <<>> \/ seg = <<".">>
             THEN NormalizeSegments(Tail(segs), acc, isAbsolute)
             ELSE IF seg = <<".", ".">>
             THEN IF acc # <<>> /\ Last(acc) # <<".", ".">>
                  THEN NormalizeSegments(Tail(segs), SubSeq(acc, 1, Len(acc) - 1), isAbsolute)
                  ELSE IF isAbsolute
                  THEN NormalizeSegments(Tail(segs), acc, isAbsolute)
                  ELSE NormalizeSegments(Tail(segs), Append(acc, seg), isAbsolute)
             ELSE NormalizeSegments(Tail(segs), Append(acc, seg), isAbsolute)

\* Path.posix.normalize.
PosixNormalize(p) ==
    IF p = <<>> THEN <<".">>
    ELSE LET isAbsolute == p[1] = "/"
             trailing   == Last(p) = "/"
             body == JoinWith(NormalizeSegments(SplitChar(p, "/"), <<>>, isAbsolute), <<"/">>)
             rel  == IF body = <<>>
                     THEN (IF isAbsolute THEN <<>> ELSE <<".">>)
                     ELSE (IF trailing THEN body \o <<"/">> ELSE body)
         IN  IF isAbsolute THEN <<"/">> \o rel ELSE rel

\* Path.posix.join(a, b): the non-empty arguments joined by a slash, normalized.
PosixJoin(a, b) ==
    LET joined == IF a = <<>> THEN b
                  ELSE IF b = <<>> THEN a
                  ELSE a \o <<"/">> \o b
    IN  PosixNormalize(joined)

(***************************************************************************)
(* parseImageBlock                                                         *)
(***************************************************************************)
HttpsPrefix == <<"h","t","t","p","s",":","/","/">>

\* The characters the regular expression dot does not match.
LineTerminators == {"\n", "\r"}

\* The index at which the text behind a two-character group at j, j+1 and
\* the whitespace after it starts.
AfterCodeAndSpace(l, j) ==
    LET rest == {k \in (j + 2)..Len(l) : ~IsSpace(l[k])}
    IN  IF rest = {} THEN Len(l) + 1 ELSE SetMin(rest)

\* Whether (..)\s*(https:\/\/.*) matches with its first group at index j.
CodeGroupAt(l, j) ==
    /\ j + 1 <= Len(l)
    /\ l[j] \notin LineTerminators
    /\ l[j + 1] \notin LineTerminators
    /\ OccursAt(l, HttpsPrefix, AfterCodeAndSpace(l, j))

\* /\s*(..)\s*(https:\/\/.*)/.exec(l): the match that starts leftmost, with
\* the leading \s* as long as it can be.  [matched |-> FALSE] stands for null.
LocaleLineMatch(l) ==
    LET groups == {j \in 1..Len(l) : CodeGroupAt(l, j)}
        pairs  == {p \in (1..Len(l)) \X groups :
                      /\ p[1] <= p[2]
                      /\ \A i \in p[1]..(p[2] - 1) : IsSpace(l[i])}
    IN  IF pairs = {} THEN [matched |-> FALSE, code |-> <<>>, url |-> <<>>]
        ELSE LET s == SetMin({p[1] : p \in pairs})
                 j == SetMax({p[2] : p \in {q \in pairs : q[1] = s}})
                 u == AfterCodeAndSpace(l, j)
                 stop == {k \in u..Len(l) : l[k] \in LineTerminators}
                 e == IF stop = {} THEN Len(l) ELSE SetMin(stop) - 1
             IN  [matched |-> TRUE, code |-> <<l[j], l[j + 1]>>, url |-> SubSeq(l, u, e)]

\* The body of lines.forEach: a matching line adds a localized entry, any
\* other line is added to the caption with a space behind it.
RECURSIVE ParseLines(_, _)
ParseLines(lines, acc) ==
    IF lines = <<>> THEN acc
    ELSE LET l == Head(lines)
             m == LocaleLineMatch(l)
         IN  IF m.matched
             THEN ParseLines(Tail(lines),
                     [acc EXCEPT !.localizedUrls =
                         Append(@, [iso632Code |-> ToLowerCase(m.code), url |-> m.url])])
             ELSE ParseLines(Tail(lines),
                     [acc EXCEPT !.caption = @ \o l \o <<" ">>])

RECURSIVE Concat(_)
Concat(parts) == IF parts = <<>> THEN <<>> ELSE Head(parts) \o Concat(Tail(parts))

\* An undefined Buffer, and a Buffer holding bytes.
NoBuffer == [defined |-> FALSE, bytes |-> <<>>]

BufferOf(bytes) == [defined |-> TRUE, bytes |-> bytes]

NoPageInfo ==
    [slug |-> <<>>, directoryContainingMarkdown |-> <<>>,
     relativeFilePathToFolderContainingPage |-> <<>>]

\* A parse that starts from an empty list of localized images.
parseImageBlockUnseeded(image, localeList) ==
    LET parsed == ParseLines(SplitChar(Concat(image.caption), "\n"),
                             [caption |-> <<>>, localizedUrls |-> <<>>])
    IN  [primaryUrl    |-> image.url,
         caption       |-> Trim(parsed.caption),
         localizedUrls |-> parsed.localizedUrls,
         pageInfo      |-> NoPageInfo,
         primaryBuffer |-> NoBuffer,
         outputFileName          |-> <<>>,
         primaryFileOutputPath   |-> <<>>,
         filePathToUseInMarkdown |-> <<>>]

\* parseImageBlock(image) once the locale list is there (it throws when it is
\* not, see processImageBlock).  image.caption is the list of the plain_text
\* of its text runs.
parseImageBlock(image, localeList) ==
    LET seeded == [caption |-> <<>>,
                   localizedUrls |-> [i \in 1..Len(localeList) |->
                                        [iso632Code |-> localeList[i], url |-> <<>>]]]
        parsed == ParseLines(SplitChar(Concat(image.caption), "\n"), seeded)
    IN  [primaryUrl    |-> image.url,
         caption       |-> Trim(parsed.caption),
         localizedUrls |-> parsed.localizedUrls,
         pageInfo      |-> NoPageInfo,
         primaryBuffer |-> NoBuffer,
         outputFileName          |-> <<>>,
         primaryFileOutputPath   |-> <<>>,
         filePathToUseInMarkdown |-> <<>>]

(***************************************************************************)
(* makeImagePersistencePlanWithoutBuffer and makeImagePersistencePlan      *)
(***************************************************************************)
DefaultExtension == <<"p","n","g">>

\* A URL taken whole, its query string with it.
UrlWithQuery(url) == url

\* imageSet.primaryUrl.split("?")[0]
UrlBeforeQuery(url) == SplitChar(url, "?")[1]

\* urlBeforeQuery.split(".").pop(), or png when that is the empty string.
ExtensionOf(urlBeforeQuery) ==
    LET popped == Last(SplitChar(urlBeforeQuery, "."))
    IN  IF popped = <<>> THEN DefaultExtension ELSE popped

\* A slug part that keeps the leading slash of the slug.
PageSlugPartUnstripped(slug) ==
    IF slug = <<>> THEN <<>> ELSE slug \o <<".">>

\* slug.replace(/^\//, "") followed by a dot, or nothing for an empty slug.
PageSlugPart(slug) ==
    IF slug = <<>> THEN <<>>
    ELSE (IF slug[1] = "/" THEN Tail(slug) ELSE slug) \o <<".">>

\* A legacy name that hashes the URL even when it holds a UUID.
OutputFileNameHashingUrl(format, primaryUrl, imageBlockId, slug) ==
    LET urlBeforeQuery == UrlBeforeQuery(primaryUrl)
        ext == ExtensionOf(urlBeforeQuery)
    IN  IF format = "legacy"
        THEN hashOfString(urlBeforeQuery) \o <<".">> \o ext
        ELSE PageSlugPart(slug) \o imageBlockId \o <<".">> \o ext

\* The outputFileName of the default and legacy formats.
OutputFileNameWithoutBuffer(format, primaryUrl, imageBlockId, slug) ==
    LET urlBeforeQuery == UrlBeforeQuery(primaryUrl)
        ext == ExtensionOf(urlBeforeQuery)
    IN  IF format = "legacy"
        THEN LET found == findLastUuid(urlBeforeQuery)
                 thingToHash == IF found.found THEN found.uuid ELSE urlBeforeQuery
             IN  hashOfString(thingToHash) \o <<".">> \o ext
        ELSE PageSlugPart(slug) \o imageBlockId \o <<".">> \o ext

\* The part of both planners behind the choice of outputFileName: the output
\* path and the path the markdown uses.  decodeURI may throw.
PlanPaths(imageSet, outputFileName, imageOutputRootPath, prefix) ==
    [imageSet EXCEPT
        !.outputFileName = outputFileName,
        !.primaryFileOutputPath =
            PosixJoin(IF Len(imageOutputRootPath) > 0
                      THEN imageOutputRootPath
                      ELSE imageSet.pageInfo.directoryContainingMarkdown,
                      DecodeURI(outputFileName)),
        !.filePathToUseInMarkdown =
            (IF Len(prefix) > 0 THEN prefix ELSE <<".">>) \o <<"/">> \o outputFileName]

makeImagePersistencePlanWithoutBuffer(options, imageSet, imageBlockId, imageOutputRootPath, prefix) ==
    PlanPaths(imageSet,
              OutputFileNameWithoutBuffer(options.imageFileNameFormat,
                                          imageSet.primaryUrl, imageBlockId,
                                          imageSet.pageInfo.slug),
              imageOutputRootPath, prefix)

\* FileType.fromBuffer: the extension the leading bytes tell, if any.
SniffedExtension(bytes) ==
    IF StartsWith(bytes, <<"P","N","G">>) THEN [found |-> TRUE, ext |-> <<"p","n","g">>]
    ELSE IF StartsWith(bytes, <<"G","I","F">>) THEN [found |-> TRUE, ext |-> <<"g","i","f">>]
    ELSE [found |-> FALSE, ext |-> <<>>]

\* The content-hash format: a name made of a hash of the bytes and of the
\* extension the bytes tell (that of the URL when they tell none).
OutputFileNameFromBuffer(primaryUrl, bytes) ==
    LET sniffed == SniffedExtension(bytes)
        ext == IF sniffed.found THEN sniffed.ext ELSE ExtensionOf(UrlBeforeQuery(primaryUrl))
    IN  hashOfString(bytes) \o <<".">> \o ext

makeImagePersistencePlan(options, imageSet, imageBlockId, imageOutputRootPath, prefix) ==
    PlanPaths(imageSet,
              IF options.imageFileNameFormat = "content-hash"
              THEN OutputFileNameFromBuffer(imageSet.primaryUrl, imageSet.primaryBuffer.bytes)
              ELSE OutputFileNameWithoutBuffer(options.imageFileNameFormat,
                                               imageSet.primaryUrl, imageBlockId,
                                               imageSet.pageInfo.slug),
              imageOutputRootPath, prefix)

(***************************************************************************)
(* The pages, the blocks and the configurations of the model               *)
(***************************************************************************)
LocaleFr == <<"f","r">>

LocaleEs == <<"e","s">>

UrlA == <<"h","t","t","p","s",":","/","/","h","/","a",".","p","n","g","?","k">>

UrlB == <<"h","t","t","p","s",":","/","/","h","/","b",".","p","n","g">>

UrlF == <<"h","t","t","p","s",":","/","/","h","/","f",".","p","n","g">>

BytesOne == <<"P","N","G","1">>

BytesTwo == <<"P","N","G","2">>

\* The body of an HTTP error response (an HTML page, not an image).
HttpErrorBody == <<"<","4","0","4",">">>

\* What the network serves: UrlA and UrlB serve the same bytes.
RemoteBodies == (UrlA :> BytesOne) @@ (UrlB :> BytesOne) @@ (UrlF :> BytesTwo)

PageP ==
    [slug |-> <<"/","p">>, directoryContainingMarkdown |-> <<"d">>,
     relativeFilePathToFolderContainingPage |-> <<>>]

PageG ==
    [slug |-> <<>>, directoryContainingMarkdown |-> <<"d","/","g">>,
     relativeFilePathToFolderContainingPage |-> <<"/","g">>]

\* The image blocks as the source serves them: a hosted file without a
\* caption, and an external image whose caption holds a locale line.
BlockB1 ==
    [id |-> <<"b","1">>, image |-> [type |-> "file", url |-> UrlA, caption |-> <<>>]]

BlockB2 ==
    [id |-> <<"b","2">>,
     image |-> [type |-> "external", url |-> UrlB,
                caption |-> << <<"H","i","\n">>, <<"f","r"," ","h","t","t","p","s",":","/","/","h","/","f",".","p","n","g">> >>]]

SourceBlocks == {BlockB1, BlockB2}

\* The page each block is on.
PageOf(block) == IF block.id = BlockB2.id THEN PageG ELSE PageP

Formats == {"default", "legacy", "content-hash"}

AllOptions == [imageFileNameFormat : Formats, forceRefreshImages : BOOLEAN]

\* The arguments initImageHandling is called with.
InitArguments ==
    { [prefix |-> <<>>, outputPath |-> <<>>, incomingLocales |-> <<>>],
      [prefix |-> <<"/","i","/">>, outputPath |-> <<"s">>, incomingLocales |-> <<LocaleFr>>],
      [prefix |-> <<"/">>, outputPath |-> <<"s">>, incomingLocales |-> <<LocaleFr, LocaleEs>>] }

\* The files an earlier run has left: none, or the image of BlockB1 (under
\* the default format and the output path s) and an image no block uses now.
FileA == <<"s","/","p",".","b","1",".","p","n","g">>

FileB == <<"s","/","p",".","b","0",".","p","n","g">>

OldBytes == <<"O","L","D">>

\* prefix.replace(/\/$/, "")
WithoutTrailingSlash(prefix) ==
    IF prefix # <<>> /\ Last(prefix) = "/" THEN SubSeq(prefix, 1, Len(prefix) - 1) ELSE prefix

\* The path of the copy of the image for one locale (lines 237-246).
I18nDirectory == <<".","/","i","1","8","n","/">>

DocsCurrentDirectory == <<"/","d","o","c","u","s","a","u","r","u","s","-","p","l","u","g","i","n","-","c","o","n","t","e","n","t","-","d","o","c","s","/","c","u","r","r","e","n","t","/">>

LocalizedPath(iso632Code, relativeFilePathToFolderContainingPage, outputFileName) ==
    ReplaceAll(I18nDirectory \o iso632Code \o DocsCurrentDirectory
                   \o relativeFilePathToFolderContainingPage
                   \o <<"/">> \o outputFileName,
               <<"/", "/">>, <<"/">>)

\* The file a path names: paths are resolved against the working directory,
\* so that ./a//b and a/b are one file.
FsKey(path) == PosixNormalize(path)

(***************************************************************************)
(* The catalogue.  The state machine below holds every string as one value *)
(* (Str of its characters) and looks the string functions up in tables     *)
(* that are computed once, from the definitions above, over the strings    *)
(* the blocks, pages and configurations of the model give rise to.         *)
(***************************************************************************)
RECURSIVE Str(_)
Str(s) == IF s = <<>> THEN "" ELSE Head(s) \o Str(Tail(s))

StrEach(l) == [i \in 1..Len(l) |-> Str(l[i])]

\* The function that maps Key(x) to Val(x) for the x of S.
Tabulated(S, Key(_), Val(_)) ==
    [k \in {Key(x) : x \in S} |-> Val(CHOOSE x \in S : Key(x) = k)] @@ <<>>

StrImage(image) ==
    [type |-> image.type, url |-> Str(image.url), caption |-> StrEach(image.caption)]

StrBlock(block) == [id |-> Str(block.id), image |-> StrImage(block.image)]

StrPage(pageInfo) ==
    [slug |-> Str(pageInfo.slug),
     directoryContainingMarkdown |-> Str(pageInfo.directoryContainingMarkdown),
     relativeFilePathToFolderContainingPage |->
         Str(pageInfo.relativeFilePathToFolderContainingPage)]

StrImageSet(imageSet) ==
    [primaryUrl    |-> Str(imageSet.primaryUrl),
     caption       |-> Str(imageSet.caption),
     localizedUrls |-> [i \in 1..Len(imageSet.localizedUrls) |->
                          [iso632Code |-> Str(imageSet.localizedUrls[i].iso632Code),
                           url |-> Str(imageSet.localizedUrls[i].url)]],
     pageInfo      |-> StrPage(imageSet.pageInfo),
     primaryBuffer |-> [defined |-> imageSet.primaryBuffer.defined,
                        bytes |-> Str(imageSet.primaryBuffer.bytes)],
     outputFileName          |-> Str(imageSet.outputFileName),
     primaryFileOutputPath   |-> Str(imageSet.primaryFileOutputPath),
     filePathToUseInMarkdown |-> Str(imageSet.filePathToUseInMarkdown)]

Blocks == {StrBlock(b) : b \in SourceBlocks}

Pages == Tabulated(SourceBlocks, LAMBDA b : Str(b.id), LAMBDA b : StrPage(PageOf(b)))

Remote == Tabulated(DOMAIN RemoteBodies, Str, LAMBDA u : Str(RemoteBodies[u]))

ErrorBody == Str(HttpErrorBody)

LocaleLists == {a.incomingLocales : a \in InitArguments}

\* Every image set parseImageBlock gives, with the page of its block.
ParseInputs == SourceBlocks \X LocaleLists

ParsedOn(x) == [parseImageBlock(x[1].image, x[2]) EXCEPT !.pageInfo = PageOf(x[1])]

ParseTable ==
    Tabulated(ParseInputs,
              LAMBDA x : <<StrImage(x[1].image), StrEach(x[2])>>,
              LAMBDA x : StrImageSet(parseImageBlock(x[1].image, x[2])))

\* Every call of a planner: the format, the block and its parse, the
\* arguments of initImageHandling, and the primary bytes where there are.
FetchedBodies == {RemoteBodies[u] : u \in DOMAIN RemoteBodies} \cup {HttpErrorBody}

EarlyPlanInputs == (Formats \ {"content-hash"}) \X ParseInputs \X InitArguments

LatePlanInputs == ParseInputs \X InitArguments \X FetchedBodies

EarlyPlan(x) ==
    makeImagePersistencePlanWithoutBuffer([imageFileNameFormat |-> x[1]], ParsedOn(x[2]),
        x[2][1].id, x[3].outputPath, WithoutTrailingSlash(x[3].prefix))

LatePlan(x) ==
    makeImagePersistencePlan([imageFileNameFormat |-> "content-hash"],
        [ParsedOn(x[1]) EXCEPT !.primaryBuffer = BufferOf(x[3])],
        x[1][1].id, x[2].outputPath, WithoutTrailingSlash(x[2].prefix))

\* A plan, or the URIError decodeURI throws on the name.
PlanOrThrow(imageSet) ==
    [throws |-> DecodeURIThrows(imageSet.outputFileName), imageSet |-> StrImageSet(imageSet)]

EarlyPlanTable ==
    Tabulated(EarlyPlanInputs,
              LAMBDA x : <<x[1], StrImageSet(ParsedOn(x[2])), Str(x[2][1].id),
                           Str(x[3].outputPath), Str(WithoutTrailingSlash(x[3].prefix))>>,
              LAMBDA x : PlanOrThrow(EarlyPlan(x)))

LatePlanTable ==
    Tabulated(LatePlanInputs,
              LAMBDA x : <<StrImageSet([ParsedOn(x[1]) EXCEPT !.primaryBuffer = BufferOf(x[3])]),
                           Str(x[1][1].id), Str(x[2].outputPath),
                           Str(WithoutTrailingSlash(x[2].prefix))>>,
              LAMBDA x : PlanOrThrow(LatePlan(x)))

PlannedSets == {EarlyPlan(x) : x \in EarlyPlanInputs} \cup {LatePlan(x) : x \in LatePlanInputs}

LocalizedPathInputs ==
    UNION { { <<is.localizedUrls[i].iso632Code,
                is.pageInfo.relativeFilePathToFolderContainingPage,
                is.outputFileName>> : i \in 1..Len(is.localizedUrls) } : is \in PlannedSets }

LocalizedPathTable ==
    Tabulated(LocalizedPathInputs,
              LAMBDA x : <<Str(x[1]), Str(x[2]), Str(x[3])>>,
              LAMBDA x : Str(LocalizedPath(x[1], x[2], x[3])))

KnownPaths ==
    {is.primaryFileOutputPath : is \in PlannedSets}
        \cup {LocalizedPath(x[1], x[2], x[3]) : x \in LocalizedPathInputs}
        \cup {FileA, FileB}

FsKeyTable == Tabulated(KnownPaths, Str, LAMBDA path : Str(FsKey(path)))

(***************************************************************************)
(* The file system, the network and the faults of one call                 *)
(***************************************************************************)
\* A file system in which no file is ever found.
ExistsNever(files, path, world) == FALSE

\* fs.existsSync
existsSync(files, path, world) == world.fsKey[path] \in DOMAIN files

\* One step of a handler, as the trace of a call records it.
Ev(op, target, info, bytes) == [op |-> op, target |-> target, info |-> info, bytes |-> bytes]

\* What one call meets: nothing, or the at-th fetch of the call rejecting
\* (a network failure), or the at-th fetch answering with an HTTP error
\* status and an error page as its body, or the at-th write throwing, or
\* the at-th removal failing.
NoFault == [kind |-> "none", at |-> 0]

FaultKinds == {"fetch_rejects", "http_error", "write_throws"}

Faulty(fault, kind, n) == fault.kind = kind /\ fault.at = n

\* The working record of a call.  files and registry: the output tree and
\* the registry as the call has left them so far; block: the block of the
\* caller; imageSet; events: the trace; nfetch, nwrite, nrm: the fetches,
\* writes and removals counted; body: what the last fetch gave; skip: what
\* the last cache gate said; err: the error thrown (none while it is empty).
\* A step of a handler is not run once an error is thrown: every step below
\* leaves such a record as it is.
StartOf(env, block, imageSet) ==
    [files |-> env.files, registry |-> env.registry, block |-> block, imageSet |-> imageSet,
     events |-> <<>>, nfetch |-> 0, nwrite |-> 0, nrm |-> 0, body |-> "", skip |-> FALSE,
     err |-> ""]

Logged(st, ev) == [st EXCEPT !.events = Append(@, ev)]

Thrown(st, e) == [st EXCEPT !.err = e]

\* writeAsset(path, buffer): the bytes are at the path afterwards, its parent
\* directories created; a failing write throws and leaves the tree as it was.
writeAsset(st, path, bytes, world) ==
    IF st.err # "" THEN st
    ELSE IF Faulty(world.fault, "write_throws", st.nwrite + 1)
    THEN [st EXCEPT !.nwrite = @ + 1, !.err = "WriteError",
                    !.events = Append(@, Ev("write_failed", path, "WriteError", bytes))]
    ELSE [st EXCEPT !.nwrite = @ + 1,
                    !.events = Append(@, Ev("write", path, "ok", bytes)),
                    !.files = (world.fsKey[path] :> bytes) @@ @]

(***************************************************************************)
(* imageWasSeen, readPrimaryImage, saveLocalizedImages, saveImage          *)
(***************************************************************************)
\* A registry that takes the path in instead of leaving it out.
imageWasSeenAdding(registry, path) == Append(registry, path)

\* existingImagesNotSeenYetInPull.filter(p => p !== path)
imageWasSeen(registry, path) == SelectSeq(registry, LAMBDA p : p # path)

MarkSeen(st, path) ==
    IF st.err # "" THEN st
    ELSE [st EXCEPT !.registry = imageWasSeen(@, path),
                    !.events = Append(@, Ev("seen", path, "", ""))]

\* await fetch(url); await response.arrayBuffer(): the body of the response
\* whatever its status is, or a rejection.
Fetch(st, url, world) ==
    IF st.err # "" THEN st
    ELSE IF Faulty(world.fault, "fetch_rejects", st.nfetch + 1)
    THEN [st EXCEPT !.nfetch = @ + 1, !.err = "FetchError",
                    !.events = Append(@, Ev("fetch", url, "rejected", ""))]
    ELSE IF Faulty(world.fault, "http_error", st.nfetch + 1)
    THEN [st EXCEPT !.nfetch = @ + 1, !.body = world.errorBody,
                    !.events = Append(@, Ev("fetch", url, "http_error", world.errorBody))]
    ELSE [st EXCEPT !.nfetch = @ + 1, !.body = world.remote[url],
                    !.events = Append(@, Ev("fetch", url, "ok", world.remote[url]))]

\* imageSet.primaryBuffer = Buffer.from(arrayBuffer)
KeepPrimaryBuffer(st) ==
    IF st.err # "" THEN st
    ELSE [st EXCEPT !.imageSet.primaryBuffer = [defined |-> TRUE, bytes |-> st.body]]

readPrimaryImage(st, world) == KeepPrimaryBuffer(Fetch(st, st.imageSet.primaryUrl, world))

\* A gate that looks for the file whatever the flag says.
GateIgnoringForce(st, name, path, force, world) ==
    IF st.err # "" THEN st
    ELSE IF existsSync(st.files, path, world)
    THEN [st EXCEPT !.skip = TRUE,
                    !.events = @ \o <<Ev("exists", path, "yes", ""), Ev(name, path, "skip", "")>>]
    ELSE [st EXCEPT !.skip = FALSE,
                    !.events = @ \o <<Ev("exists", path, "no", ""), Ev(name, path, "go", "")>>]

\* The cache gate: !forceRefreshImages && fs.existsSync(path), the existence
\* looked up only when the flag is off.  The record keeps what the gate says.
Gate(st, name, path, force, world) ==
    IF st.err # "" THEN st
    ELSE IF force
    THEN [st EXCEPT !.skip = FALSE, !.events = Append(@, Ev(name, path, "go", ""))]
    ELSE IF existsSync(st.files, path, world)
    THEN [st EXCEPT !.skip = TRUE,
                    !.events = @ \o <<Ev("exists", path, "yes", ""), Ev(name, path, "skip", "")>>]
    ELSE [st EXCEPT !.skip = FALSE,
                    !.events = @ \o <<Ev("exists", path, "no", ""), Ev(name, path, "go", "")>>]

\* A fallback that reads the primary image anew for every entry.
WriteLocalizedImageRereading(st, localizedImage, newPath, world) ==
    IF st.err # "" \/ st.skip THEN st
    ELSE IF localizedImage.url # ""
    THEN (LET fetched == Fetch(st, localizedImage.url, world)
          IN  writeAsset(fetched, newPath, fetched.body, world))
    ELSE (LET read == readPrimaryImage(st, world)
          IN  writeAsset(read, newPath, read.imageSet.primaryBuffer.bytes, world))

\* A fallback that takes the primary buffer as it is, read or not.
WriteLocalizedImageUnread(st, localizedImage, newPath, world) ==
    IF st.err # "" \/ st.skip THEN st
    ELSE IF localizedImage.url # ""
    THEN (LET fetched == Fetch(st, localizedImage.url, world)
          IN  writeAsset(fetched, newPath, fetched.body, world))
    ELSE writeAsset(st, newPath, st.imageSet.primaryBuffer.bytes, world)

\* Lines 254-272: the bytes of a localized image, the override fetched or
\* the primary image (read now if it has not been), written to newPath.
WriteLocalizedImage(st, localizedImage, newPath, world) ==
    IF st.err # "" \/ st.skip THEN st
    ELSE IF localizedImage.url # ""
    THEN (LET fetched == Fetch(st, localizedImage.url, world)
          IN  writeAsset(fetched, newPath, fetched.body, world))
    ELSE IF st.imageSet.primaryBuffer.defined
    THEN writeAsset(st, newPath, st.imageSet.primaryBuffer.bytes, world)
    ELSE (LET read == readPrimaryImage(st, world)
          IN  writeAsset(read, newPath, read.imageSet.primaryBuffer.bytes, world))

\* The body of the loop of saveLocalizedImages for one entry.
SaveLocalizedImage(st, localizedImage, context, world) ==
    LET newPath == world.localizedPath[<<localizedImage.iso632Code,
                       st.imageSet.pageInfo.relativeFilePathToFolderContainingPage,
                       st.imageSet.outputFileName>>]
    IN  WriteLocalizedImage(
            Gate(MarkSeen(st, newPath), "gate", newPath,
                 context.options.forceRefreshImages, world),
            localizedImage, newPath, world)

RECURSIVE SaveLocalizedImagesFrom(_, _, _, _)
SaveLocalizedImagesFrom(st, i, context, world) ==
    IF st.err # "" \/ i > Len(st.imageSet.localizedUrls) THEN st
    ELSE SaveLocalizedImagesFrom(
             SaveLocalizedImage(st, st.imageSet.localizedUrls[i], context, world),
             i + 1, context, world)

saveLocalizedImages(st, context, world) == SaveLocalizedImagesFrom(st, 1, context, world)

\* A saveImage that writes the primary image whatever the gate said.
WritePrimaryImageAlways(st, world) ==
    IF st.err # "" THEN st
    ELSE writeAsset(st, st.imageSet.primaryFileOutputPath, st.imageSet.primaryBuffer.bytes, world)

\* Lines 298-303 of saveImage: the primary image written unless the gate
\* said to skip.
WritePrimaryImage(st, world) ==
    IF st.err # "" \/ st.skip THEN st
    ELSE writeAsset(st, st.imageSet.primaryFileOutputPath, st.imageSet.primaryBuffer.bytes, world)

saveImage(st, context, world) ==
    IF st.err # "" THEN st
    ELSE saveLocalizedImages(
             WritePrimaryImage(
                 Gate(MarkSeen(st, st.imageSet.primaryFileOutputPath), "gate",
                      st.imageSet.primaryFileOutputPath,
                      context.options.forceRefreshImages, world),
                 world),
             context, world)

(***************************************************************************)
(* processImageBlock and markdownToMDImageTransformer                      *)
(***************************************************************************)
\* The plan of a planner taken over by the record, or the URIError of
\* decodeURI thrown.
Planned(st, plan) ==
    IF st.err # "" THEN st
    ELSE IF plan.throws THEN Thrown(st, "URIError")
    ELSE [st EXCEPT !.imageSet = plan.imageSet, !.events = Append(@, Ev("plan", "", "", ""))]

\* A processing that reads and saves the image without looking at what the
\* check of line 132 said.
SkipOrDownloadUnchecked(st, context, world) ==
    IF st.err # "" THEN st
    ELSE saveImage(readPrimaryImage(st, world), context, world)

\* Lines 132-140: the file is there and no refresh is forced, so it is only
\* marked seen and the localized images are saved; or the image is read and
\* saved.
SkipOrDownload(st, context, world) ==
    IF st.err # "" THEN st
    ELSE IF st.skip
    THEN saveLocalizedImages(MarkSeen(st, st.imageSet.primaryFileOutputPath), context, world)
    ELSE saveImage(readPrimaryImage(st, world), context, world)

\* Line 132: !forceRefreshImages && primaryFileOutputPath && fs.existsSync(..)
Precheck(st, context, world) ==
    IF st.err # "" THEN st
    ELSE IF st.imageSet.primaryFileOutputPath = ""
    THEN [st EXCEPT !.skip = FALSE, !.events = Append(@, Ev("precheck", "", "go", ""))]
    ELSE Gate(st, "precheck", st.imageSet.primaryFileOutputPath,
              context.options.forceRefreshImages, world)

\* A processing that reads the primary image before it plans the path, in
\* the formats that could plan first.
ProcessWithEarlyFilenameReadingFirst(st, context, env, world) ==
    LET plan == world.earlyPlan[<<context.options.imageFileNameFormat, st.imageSet,
                                  st.block.id, env.imageOutputPath, env.imagePrefix>>]
        read == readPrimaryImage(st, world)
    IN  saveImage(Planned(read, [plan EXCEPT !.imageSet.primaryBuffer = read.imageSet.primaryBuffer]),
                  context, world)

\* Lines 121-141: the formats that name the file without its bytes.
ProcessWithEarlyFilename(st, context, env, world) ==
    SkipOrDownload(
        Precheck(
            Planned(st, world.earlyPlan[<<context.options.imageFileNameFormat, st.imageSet,
                                          st.block.id, env.imageOutputPath, env.imagePrefix>>]),
            context, world),
        context, world)

\* The plan of makeImagePersistencePlan for the bytes read.
PlannedFromBuffer(st, env, world) ==
    IF st.err # "" THEN st
    ELSE Planned(st, world.latePlan[<<st.imageSet, st.block.id,
                                      env.imageOutputPath, env.imagePrefix>>])

\* Lines 142-153: content-hash, which needs the bytes to name the file.
ProcessWithContentHash(st, context, env, world) ==
    saveImage(PlannedFromBuffer(readPrimaryImage(st, world), env, world), context, world)

\* Lines 155-172: the block points to the local copy and keeps the caption
\* without its locale lines.
RewrittenBlock(block, imageSet) ==
    [block EXCEPT
        !.image.url = imageSet.filePathToUseInMarkdown,
        !.image.caption = IF imageSet.caption # "" THEN <<imageSet.caption>> ELSE <<>>]

\* A rewrite that does not wait for the call to succeed.
RewriteBlockAlways(st) == [st EXCEPT !.block = RewrittenBlock(@, st.imageSet)]

RewriteBlock(st) ==
    IF st.err # "" THEN st
    ELSE [st EXCEPT !.block = RewrittenBlock(@, st.imageSet)]

UnparsedImageSet ==
    StrImageSet(parseImageBlock([type |-> "file", url |-> <<>>, caption |-> <<>>], <<>>))

\* A parse that does not look whether initImageHandling has run.
ParsedUnchecked(block, context, env, world) ==
    StartOf(env, block,
            [world.parse[<<block.image, env.locales.list>>] EXCEPT !.pageInfo = context.pageInfo])

\* parseImageBlock(block.image) with the page of the context, or its throw
\* where initImageHandling has not run.
Parsed(block, context, env, world) ==
    IF ~env.locales.defined
    THEN Thrown(StartOf(env, block, UnparsedImageSet), "ConfigurationError")
    ELSE StartOf(env, block,
                 [world.parse[<<block.image, env.locales.list>>]
                     EXCEPT !.pageInfo = context.pageInfo])

\* processImageBlock(block, context) in the module state env (locales,
\* imagePrefix, imageOutputPath, registry, files): the working record at its
\* end (or at the throw), the block in it as the call leaves it.
processImageBlock(block, context, env, world) ==
    RewriteBlock(
        IF context.options.imageFileNameFormat # "content-hash"
        THEN ProcessWithEarlyFilename(Parsed(block, context, env, world), context, env, world)
        ELSE ProcessWithContentHash(Parsed(block, context, env, world), context, env, world))

RECURSIVE StrConcat(_)
StrConcat(parts) == IF parts = <<>> THEN "" ELSE Head(parts) \o StrConcat(Tail(parts))

\* The string markdownToMDImageTransformer returns for the block
\* processImageBlock has left.
ImageMarkdown(block) ==
    "![" \o StrConcat(block.image.caption) \o "](" \o block.image.url \o ")"

NoBlock == [id |-> "", image |-> [type |-> "file", url |-> "", caption |-> <<>>]]

(***************************************************************************)
(* cleanupOldImages                                                        *)
(***************************************************************************)
\* await fs.rm(p): it rejects for a path that is not there and where the
\* removal fails.
Remove(st, p, world) ==
    IF Faulty(world.fault, "rm_fails", st.nrm + 1) \/ ~existsSync(st.files, p, world)
    THEN [st EXCEPT !.nrm = @ + 1, !.err = "RemoveError",
                    !.events = Append(@, Ev("rm_failed", p, "", ""))]
    ELSE [st EXCEPT !.nrm = @ + 1,
                    !.events = Append(@, Ev("rm", p, "ok", "")),
                    !.files = [k \in (DOMAIN @) \ {world.fsKey[p]} |-> @[k]]]

\* The loop of cleanupOldImages from the i-th entry of the registry on: a
\* rejection leaves the loop and the function.
RECURSIVE CleanupFrom(_, _, _)
CleanupFrom(st, i, world) ==
    IF st.err # "" \/ i > Len(st.registry) THEN st
    ELSE CleanupFrom(Remove(st, st.registry[i], world), i + 1, world)

cleanupOldImages(env, world) == CleanupFrom(StartOf(env, NoBlock, UnparsedImageSet), 1, world)

(***************************************************************************)
(* The state: the module variables of images.ts, the output tree, the      *)
(* options of the caller, and what the last call did                       *)
(***************************************************************************)
VARIABLES
    locales,                         \* [defined, list]: undefined until initImageHandling
    imagePrefix,
    imageOutputPath,
    existingImagesNotSeenYetInPull,  \* the registry of paths not seen yet
    disk,                            \* the output tree: file |-> bytes
    runOptions,                      \* context.options, the same for a whole run
    calls,                           \* the calls of the transformer so far
    processed,                       \* the calls that ended without error, in order
    writeLog,                        \* the paths written in the run, in order
    configuredPrefix,                \* the prefix initImageHandling was given
    last,                            \* the last call: its trace and its result
    applied,                         \* a function applied on its own: its name and arguments
    value                            \* what that application returned, once it has

vars ==
    <<locales, imagePrefix, imageOutputPath, existingImagesNotSeenYetInPull,
      disk, runOptions, calls, processed, writeLog, configuredPrefix, last,
      applied, value>>

\* No function is applied on its own in a run of the pipeline.
NotApplied == [fn |-> "none"]

NotReturned == <<>>

NoFiles == [k \in {} |-> ""]

PriorTree == (Str(FsKey(FileA)) :> Str(OldBytes)) @@ (Str(FsKey(FileB)) :> Str(OldBytes))

InitialTrees == {NoFiles, PriorTree}

\* The faults a call may meet: none, or one at the first or the second fetch
\* or write of the call; and a removal of a cleanup that fails.
FaultPositions == {1, 2}

CallFaults == {NoFault} \cup [kind : FaultKinds, at : FaultPositions]

CleanupFaults == {NoFault} \cup [kind : {"rm_fails"}, at : FaultPositions]

\* The calls of markdownToMDImageTransformer one behaviour makes.
MaxCalls == 2

NoCall ==
    [op |-> "none", err |-> "", events |-> <<>>, nfetch |-> 0, nwrite |-> 0, nrm |-> 0,
     block |-> NoBlock, blockAfter |-> NoBlock, markdown |-> "", repeat |-> FALSE,
     filesBefore |-> NoFiles, registryBefore |-> <<>>, imageSet |-> UnparsedImageSet]

\* What a call runs in: its fault, the bodies the hosts serve, and the string
\* functions of the module, tabulated.
World(fault) ==
    [fault |-> fault, remote |-> Remote, errorBody |-> ErrorBody, fsKey |-> FsKeyTable, parse |-> ParseTable,
     earlyPlan |-> EarlyPlanTable, latePlan |-> LatePlanTable,
     localizedPath |-> LocalizedPathTable]

Env ==
    [locales |-> locales, imagePrefix |-> imagePrefix, imageOutputPath |-> imageOutputPath,
     registry |-> existingImagesNotSeenYetInPull, files |-> disk]

\* Lines 21-24: the module variables as the load of the module leaves them.
\* The output tree is whatever earlier runs have left.
Init ==
    /\ locales = [defined |-> FALSE, list |-> <<>>]
    /\ imagePrefix = ""
    /\ imageOutputPath = ""
    /\ existingImagesNotSeenYetInPull = <<>>
    /\ disk \in InitialTrees
    /\ runOptions \in AllOptions
    /\ calls = 0
    /\ processed = <<>>
    /\ writeLog = <<>>
    /\ configuredPrefix = ""
    /\ last = NoCall
    /\ applied = NotApplied
    /\ value = NotReturned

\* The start of a run whose registry an outside collaborator has filled with
\* the listing of the output tree, in either order.
PriorListings == {<<Str(FileA), Str(FileB)>>, <<Str(FileB), Str(FileA)>>}

InitSeeded ==
    /\ locales = [defined |-> FALSE, list |-> <<>>]
    /\ imagePrefix = ""
    /\ imageOutputPath = ""
    /\ disk \in InitialTrees
    /\ existingImagesNotSeenYetInPull \in (IF disk = NoFiles THEN {<<>>} ELSE PriorListings)
    /\ runOptions \in AllOptions
    /\ calls = 0
    /\ processed = <<>>
    /\ writeLog = <<>>
    /\ configuredPrefix = ""
    /\ last = NoCall
    /\ applied = NotApplied
    /\ value = NotReturned

\* initImageHandling(prefix, outputPath, incomingLocales), called once, at the
\* start of a run.
InitImageHandling(args) ==
    /\ ~locales.defined
    /\ imagePrefix' = Str(WithoutTrailingSlash(args.prefix))
    /\ configuredPrefix' = Str(args.prefix)
    /\ imageOutputPath' = Str(args.outputPath)
    /\ locales' = [defined |-> TRUE, list |-> StrEach(args.incomingLocales)]
    /\ last' = [NoCall EXCEPT !.op = "init", !.filesBefore = disk,
                              !.registryBefore = existingImagesNotSeenYetInPull]
    /\ UNCHANGED <<existingImagesNotSeenYetInPull, disk, runOptions, calls, processed, writeLog,
                   applied, value>>

\* The paths a trace has written, in order.
WrittenPaths(events) ==
    LET writes == SelectSeq(events, LAMBDA e : e.op = "write")
    IN  [i \in 1..Len(writes) |-> writes[i].target]

\* What the run keeps of a call that ended without error.
Summary(r) ==
    [id |-> r.block.id, primaryUrl |-> r.imageSet.primaryUrl,
     bytes |-> r.imageSet.primaryBuffer.bytes,
     outputFileName |-> r.imageSet.outputFileName,
     primaryFileOutputPath |-> r.imageSet.primaryFileOutputPath]

\* markdownToMDImageTransformer(block, context): processImageBlock, then the
\* markdown of the image; a throw of processImageBlock leaves it.
MarkdownToMDImageTransformer(block, fault) ==
    /\ calls < MaxCalls
    /\ \E r \in {processImageBlock(block, [options |-> runOptions, pageInfo |-> Pages[block.id]],
                                    Env, World(fault))} :
           /\ disk' = r.files
           /\ existingImagesNotSeenYetInPull' = r.registry
           /\ processed' = IF r.err = "" THEN Append(processed, Summary(r)) ELSE processed
           /\ writeLog' = writeLog \o WrittenPaths(r.events)
           /\ last' = [op |-> "process", err |-> r.err, events |-> r.events,
                       nfetch |-> r.nfetch, nwrite |-> r.nwrite, nrm |-> r.nrm,
                       block |-> block, blockAfter |-> r.block,
                       markdown |-> IF r.err = "" THEN ImageMarkdown(r.block) ELSE "",
                       repeat |-> \E i \in 1..Len(processed) : processed[i].id = block.id,
                       filesBefore |-> disk,
                       registryBefore |-> existingImagesNotSeenYetInPull,
                       imageSet |-> r.imageSet]
    /\ calls' = calls + 1
    /\ UNCHANGED <<locales, imagePrefix, imageOutputPath, runOptions, configuredPrefix,
                   applied, value>>

\* cleanupOldImages()
CleanupOldImages(fault) ==
    /\ \E r \in {cleanupOldImages(Env, World(fault))} :
           /\ disk' = r.files
           /\ last' = [NoCall EXCEPT !.op = "cleanup", !.err = r.err, !.events = r.events,
                                     !.nrm = r.nrm,
                                     !.filesBefore = disk,
                                     !.registryBefore = existingImagesNotSeenYetInPull]
    /\ UNCHANGED <<locales, imagePrefix, imageOutputPath, existingImagesNotSeenYetInPull,
                   runOptions, calls, processed, writeLog, configuredPrefix, applied, value>>

Next ==
    \/ \E args \in InitArguments : InitImageHandling(args)
    \/ \E block \in Blocks, fault \in CallFaults : MarkdownToMDImageTransformer(block, fault)
    \/ \E fault \in CleanupFaults : CleanupOldImages(fault)

Spec == Init /\ [][Next]_vars

SpecSeeded == InitSeeded /\ [][Next]_vars

(***************************************************************************)
(* The functions of images.ts applied on their own: parseImageBlock, the   *)
(* planner and the path of a localized copy, each on arguments drawn from  *)
(* a bounded set                                                           *)
(***************************************************************************)
\* The characters of a string literal.
Chars(s) == [i \in 1..Len(s) |-> SubSeq(s, i, i)]

pipelineVars ==
    <<locales, imagePrefix, imageOutputPath, existingImagesNotSeenYetInPull,
      disk, runOptions, calls, processed, writeLog, configuredPrefix, last>>

\* The lines a caption is made of: prose, locale lines (one with an upper
\* case code and two spaces), an empty line, and prose that holds a URL.
CaptionLines ==
    { Chars("Intro text."), Chars("fr https://h/a.png"), Chars("ES  https://h/b.png"),
      Chars("Outro."), Chars(""), Chars("See https://h/x") }

MaxCaptionLines == 3

Captions == UNION { [1..n -> CaptionLines] : n \in 1..MaxCaptionLines }

ParseCalls == [fn : {"parseImageBlock"}, lines : Captions, localeList : LocaleLists]

\* The primary URLs a planning is given: with an extension and a query, with
\* none, without extension (with and without a dot in the host), ending in a
\* dot, and two that hold the same UUID.
UrlNoExtension == Chars("https://h/path/image?x=1")

UrlDottedHost == Chars("https://h.io/image?x=1")

UrlTrailingDot == Chars("https://h/image.")

UuidOne == Chars("01234567-89ab-cdef-0123-456789abcdef")

UrlUuidOne == Chars("https://h/") \o UuidOne \o Chars("/a.png?k")

UrlUuidMoved == Chars("https://g/") \o UuidOne \o Chars("/b.png")

\* The URL of UrlA with another query string, and a URL that holds a UUID
\* written in upper case.
UrlAOtherQuery == Chars("https://h/a.png?m=2")

UuidUpper == Chars("01234567-89AB-CDEF-0123-456789ABCDEF")

UrlUuidUpper == Chars("https://h/") \o UuidUpper \o Chars("/a.png")

PlanUrls ==
    {UrlA, UrlF, UrlNoExtension, UrlDottedHost, UrlTrailingDot, UrlUuidOne, UrlUuidMoved,
     UrlAOtherQuery, UrlUuidUpper}

PlanSlugs == {<<>>, Chars("/p")}

\* The plannings of one block under one format that are compared.
MaxPlannings == 2

PlanCalls ==
    [fn : {"makeImagePersistencePlanWithoutBuffer"},
     imageFileNameFormat : Formats \ {"content-hash"},
     imageBlockId : {BlockB1.id, BlockB2.id},
     plannings : [1..MaxPlannings -> [primaryUrl : PlanUrls, slug : PlanSlugs]]]

\* The folders of a page, relative to the root of the documents: none, the
\* root as a slash, and folders with a slash in front, behind, or both.
RelativeFolders == {<<>>, Chars("/"), Chars("/g"), Chars("g/"), Chars("/g/"), Chars("g/h")}

LocalizedPathCalls ==
    [fn : {"saveLocalizedImages"},
     iso632Code : {LocaleFr, LocaleEs},
     relativeFilePathToFolderContainingPage : RelativeFolders,
     outputFileName : {Chars("p.b1.png"), Chars("0a1b2c3d.png")}]

FunctionCalls == ParseCalls \cup PlanCalls \cup LocalizedPathCalls

InitFunctions ==
    /\ locales = [defined |-> FALSE, list |-> <<>>]
    /\ imagePrefix = ""
    /\ imageOutputPath = ""
    /\ existingImagesNotSeenYetInPull = <<>>
    /\ disk = NoFiles
    /\ runOptions = [imageFileNameFormat |-> "default", forceRefreshImages |-> FALSE]
    /\ calls = 0
    /\ processed = <<>>
    /\ writeLog = <<>>
    /\ configuredPrefix = ""
    /\ last = NoCall
    /\ applied \in FunctionCalls
    /\ value = NotReturned

\* The image of a block whose caption is the given lines, in one text run.
CaptionedImage(lines) ==
    [type |-> "external", url |-> UrlB, caption |-> <<JoinWith(lines, <<"\n">>)>>]

\* parseImageBlock(image) with the locales initImageHandling has stored.
ParseImageBlock ==
    /\ applied.fn = "parseImageBlock"
    /\ value = NotReturned
    /\ value' = <<parseImageBlock(CaptionedImage(applied.lines), applied.localeList)>>
    /\ UNCHANGED <<pipelineVars, applied>>

\* The image set a planning is given: parsed from a block without caption,
\* on a page of the given slug.
ImageSetToPlan(planning) ==
    [parseImageBlock([type |-> "file", url |-> planning.primaryUrl, caption |-> <<>>], <<>>)
        EXCEPT !.pageInfo = [PageP EXCEPT !.slug = planning.slug]]

\* makeImagePersistencePlanWithoutBuffer(options, imageSet, imageBlockId,
\* imageOutputPath, imagePrefix), once for each planning of the call.
MakeImagePersistencePlanWithoutBuffer ==
    /\ applied.fn = "makeImagePersistencePlanWithoutBuffer"
    /\ Len(value) < Len(applied.plannings)
    /\ value' = Append(value,
                    makeImagePersistencePlanWithoutBuffer(
                        [imageFileNameFormat |-> applied.imageFileNameFormat],
                        ImageSetToPlan(applied.plannings[Len(value) + 1]),
                        applied.imageBlockId, <<"s">>, <<>>))
    /\ UNCHANGED <<pipelineVars, applied>>

\* Lines 237-246 of saveLocalizedImages: newPath, for one localized image.
SaveLocalizedImagesNewPath ==
    /\ applied.fn = "saveLocalizedImages"
    /\ value = NotReturned
    /\ value' = <<LocalizedPath(applied.iso632Code,
                                applied.relativeFilePathToFolderContainingPage,
                                applied.outputFileName)>>
    /\ UNCHANGED <<pipelineVars, applied>>

NextFunctions ==
    \/ ParseImageBlock
    \/ MakeImagePersistencePlanWithoutBuffer
    \/ SaveLocalizedImagesNewPath

SpecFunctions == InitFunctions /\ [][NextFunctions]_vars

(***************************************************************************)
(* TranslationService (TranslationService.ts).  Its strings are held as    *)
(* whole values.  What the provider's API answers to a call is an input:   *)
(* a rejection, or a reply of content blocks with or without usage.        *)
(***************************************************************************)
TranslationProviders == {"openai", "anthropic", "invalid-provider"}

AllTranslationOptions ==
    [provider : TranslationProviders, apiKey : {"test-key"},
     sourceLanguage : {"English"}, targetLanguage : {"German", "French"},
     preserveCodeBlocks : BOOLEAN, preserveFrontmatter : {TRUE}, preserveLinks : {TRUE}]

\* The constructor: a client for the provider, if it is one of the two.
NewTranslationService(options) ==
    [options |-> options,
     openaiClient |-> options.provider = "openai",
     anthropicClient |-> options.provider = "anthropic"]

\* An Error, and a thrown value that is no Error (String(err) is its text).
ErrorOf(message) == [isError |-> TRUE, message |-> message]

NoUsage == [defined |-> FALSE, tokens |-> 0]

UsageOf(tokens) == [defined |-> TRUE, tokens |-> tokens]

TokensOfReply == 100

ProviderReplies ==
    { [kind |-> "rejects", error |-> ErrorOf("429 rate limit"), blocks |-> <<>>, usage |-> NoUsage],
      [kind |-> "rejects", error |-> [isError |-> FALSE, message |-> "socket hang up"],
       blocks |-> <<>>, usage |-> NoUsage],
      [kind |-> "resolves", error |-> ErrorOf(""), blocks |-> <<>>, usage |-> UsageOf(TokensOfReply)],
      [kind |-> "resolves", error |-> ErrorOf(""),
       blocks |-> <<[type |-> "text", text |-> ""]>>, usage |-> UsageOf(TokensOfReply)],
      [kind |-> "resolves", error |-> ErrorOf(""),
       blocks |-> <<[type |-> "tool_use", text |-> ""]>>, usage |-> UsageOf(TokensOfReply)],
      [kind |-> "resolves", error |-> ErrorOf(""),
       blocks |-> <<[type |-> "text", text |-> "Uebersetzter Text"]>>,
       usage |-> UsageOf(TokensOfReply)],
      [kind |-> "resolves", error |-> ErrorOf(""),
       blocks |-> <<[type |-> "text", text |-> "Uebersetzter Text"]>>, usage |-> NoUsage] }

\* An OpenAI completion has no typed blocks and may lack usage; an Anthropic
\* message always has usage.
RepliesOf(provider) ==
    IF provider = "anthropic" THEN {r \in ProviderReplies : r.kind = "rejects" \/ r.usage.defined}
    ELSE {r \in ProviderReplies : \A i \in 1..Len(r.blocks) : r.blocks[i].type = "text"}

NoError == "undefined"

NoTranslationResult ==
    [translatedContent |-> "", success |-> FALSE, error |-> NoError, tokensUsed |-> NoUsage]

\* How a call ends: by a throw of err, or by the return of result.
Threw(err) == [threw |-> TRUE, err |-> err, result |-> NoTranslationResult]

Returned(result) == [threw |-> FALSE, err |-> ErrorOf(""), result |-> result]

\* buildTranslationPrompt: the languages, the preservation rules, the content.
buildTranslationPrompt(this, content) ==
    [sourceLanguage |-> this.options.sourceLanguage,
     targetLanguage |-> this.options.targetLanguage,
     preservationInstructions |->
         (IF this.options.preserveCodeBlocks THEN <<"code blocks">> ELSE <<>>)
             \o (IF this.options.preserveFrontmatter THEN <<"frontmatter">> ELSE <<>>)
             \o (IF this.options.preserveLinks THEN <<"links">> ELSE <<>>),
     content |-> content]

translateWithOpenAI(this, prompt, reply) ==
    IF ~this.openaiClient THEN Threw(ErrorOf("OpenAI client not initialized"))
    ELSE IF reply.kind = "rejects" THEN Threw(reply.error)
    ELSE LET translatedContent == IF reply.blocks = <<>> THEN "" ELSE reply.blocks[1].text
         IN  IF translatedContent = ""
             THEN Threw(ErrorOf("No translation received from OpenAI"))
             ELSE Returned([translatedContent |-> translatedContent, success |-> TRUE,
                            error |-> NoError, tokensUsed |-> reply.usage])

translateWithAnthropic(this, prompt, reply) ==
    IF ~this.anthropicClient THEN Threw(ErrorOf("Anthropic client not initialized"))
    ELSE IF reply.kind = "rejects" THEN Threw(reply.error)
    ELSE LET translatedContent ==
                 IF reply.blocks # <<>> /\ reply.blocks[1].type = "text"
                 THEN reply.blocks[1].text ELSE ""
         IN  IF translatedContent = ""
             THEN Threw(ErrorOf("No translation received from Anthropic"))
             ELSE Returned([translatedContent |-> translatedContent, success |-> TRUE,
                            error |-> NoError, tokensUsed |-> reply.usage])

\* The try block of translateMarkdown.
TranslateByProvider(this, content, reply) ==
    IF this.options.provider = "openai"
    THEN translateWithOpenAI(this, buildTranslationPrompt(this, content), reply)
    ELSE IF this.options.provider = "anthropic"
    THEN translateWithAnthropic(this, buildTranslationPrompt(this, content), reply)
    ELSE Threw(ErrorOf("Unsupported translation provider: " \o this.options.provider))

\* A catch block that gives back no content, as that of translateFile does.
CaughtWithoutContent(attempt, content) ==
    IF attempt.threw
    THEN Returned([translatedContent |-> "", success |-> FALSE,
                   error |-> attempt.err.message, tokensUsed |-> NoUsage])
    ELSE attempt

\* The catch block of translateMarkdown: the original content, the message.
CaughtByTranslateMarkdown(attempt, content) ==
    IF attempt.threw
    THEN Returned([translatedContent |-> content, success |-> FALSE,
                   error |-> attempt.err.message, tokensUsed |-> NoUsage])
    ELSE attempt

translateMarkdown(this, content, filename, reply) ==
    CaughtByTranslateMarkdown(TranslateByProvider(this, content, reply), content)

MarkdownContents == {"# Hello World", "# Test"}

TranslateMarkdownCalls ==
    UNION { [fn : {"translateMarkdown"}, this : {NewTranslationService(o)},
             content : MarkdownContents, filename : {"test.md"},
             reply : RepliesOf(o.provider)] : o \in AllTranslationOptions }

(***************************************************************************)
(* translateFile and translateDirectory, and TranslationPlugin             *)
(* (NotionPageCache.ts, lines 62-282).  A call runs against a source tree  *)
(* and may meet one fault of the file system; run is its working record:   *)
(* the trace of its effects, the results collected, whether it has thrown. *)
(***************************************************************************)
FileItem(name) == [name |-> name, kind |-> "file", items |-> <<>>]

DirItem(name, items) == [name |-> name, kind |-> "dir", items |-> items]

\* The markdown output: two pages, one in a folder, and a file that is none.
SourceItems == <<FileItem("a.md"), FileItem("logo.png"), DirItem("g", <<FileItem("b.mdx")>>)>>

SourceTrees == {<<>>, SourceItems}

FsFaults ==
    {"none", "pathExists_fails", "readdir_fails", "ensureDir_fails", "readFile_fails",
     "writeFile_fails"}

FsEvent(op, path) == [op |-> op, path |-> path]

StartOfRun == [events |-> <<>>, results |-> <<>>, threw |-> FALSE, message |-> ""]

Did(run, op, path) == [run EXCEPT !.events = Append(@, FsEvent(op, path))]

FailedResult(message) ==
    [translatedContent |-> "", success |-> FALSE, error |-> message, tokensUsed |-> NoUsage]

IsMarkdownName(name) ==
    EndsWith(Chars(name), Chars(".md")) \/ EndsWith(Chars(name), Chars(".mdx"))

\* A translateFile that writes what translateMarkdown returned, successful
\* or not.
translateFileUnchecked(run, this, sourcePath, targetPath, targetDir, env) ==
    LET result == translateMarkdown(this, "# " \o sourcePath, sourcePath, env.reply).result
        read == Did(Did(run, "readFile", sourcePath), "translate", sourcePath)
    IN  IF env.fault = "readFile_fails"
        THEN [Did(run, "readFile_failed", sourcePath)
                 EXCEPT !.results = Append(@, FailedResult("ENOENT"))]
        ELSE [Did(Did(read, "ensureDir", targetDir), "writeFile", targetPath)
                 EXCEPT !.results = Append(@, result)]

\* translateFile, and the push of its result (line 117): the file read and
\* translated, and written under targetDir when the translation succeeded.
\* A throw of readFile, ensureDir or writeFile ends in the catch of lines
\* 87-94, which returns a failed result.
translateFile(run, this, sourcePath, targetPath, targetDir, env) ==
    LET result == translateMarkdown(this, "# " \o sourcePath, sourcePath, env.reply).result
        read == Did(Did(run, "readFile", sourcePath), "translate", sourcePath)
    IN  IF env.fault = "readFile_fails"
        THEN [Did(run, "readFile_failed", sourcePath)
                 EXCEPT !.results = Append(@, FailedResult("ENOENT"))]
        ELSE IF ~result.success
        THEN [read EXCEPT !.results = Append(@, result)]
        ELSE IF env.fault = "ensureDir_fails"
        THEN [read EXCEPT !.results = Append(@, FailedResult("EACCES"))]
        ELSE IF env.fault = "writeFile_fails"
        THEN [Did(Did(read, "ensureDir", targetDir), "writeFile_failed", targetPath)
                 EXCEPT !.results = Append(@, FailedResult("ENOSPC"))]
        ELSE [Did(Did(read, "ensureDir", targetDir), "writeFile", targetPath)
                 EXCEPT !.results = Append(@, result)]

RECURSIVE translateDirectory(_, _, _, _, _, _, _)
RECURSIVE TranslateItemsFrom(_, _, _, _, _, _, _, _)
\* The loop of translateDirectory from the i-th item of the listing; a throw
\* of ensureDir or copy ends it in the catch of lines 125-132.
TranslateItemsFrom(run, this, sourceDir, targetDir, items, i, recursive, env) ==
    IF i > Len(items) THEN run
    ELSE IF items[i].kind = "dir" /\ recursive
    THEN TranslateItemsFrom(
             translateDirectory(run, this, sourceDir \o "/" \o items[i].name,
                                targetDir \o "/" \o items[i].name, items[i].items,
                                recursive, env),
             this, sourceDir, targetDir, items, i + 1, recursive, env)
    ELSE IF items[i].kind = "file" /\ IsMarkdownName(items[i].name)
    THEN TranslateItemsFrom(
             translateFile(run, this, sourceDir \o "/" \o items[i].name,
                           targetDir \o "/" \o items[i].name, targetDir, env),
             this, sourceDir, targetDir, items, i + 1, recursive, env)
    ELSE IF items[i].kind = "file"
    THEN (IF env.fault = "ensureDir_fails"
          THEN [run EXCEPT !.results = Append(@, FailedResult("EACCES"))]
          ELSE TranslateItemsFrom(
                   Did(Did(run, "ensureDir", targetDir), "copy",
                       targetDir \o "/" \o items[i].name),
                   this, sourceDir, targetDir, items, i + 1, recursive, env))
    ELSE TranslateItemsFrom(run, this, sourceDir, targetDir, items, i + 1, recursive, env)

\* translateDirectory(sourceDir, targetDir, recursive); items is what readdir
\* lists in sourceDir.
translateDirectory(run, this, sourceDir, targetDir, items, recursive, env) ==
    IF env.fault = "readdir_fails"
    THEN [Did(run, "readdir_failed", sourceDir) EXCEPT !.results = Append(@, FailedResult("ENOENT"))]
    ELSE TranslateItemsFrom(Did(run, "readdir", sourceDir), this, sourceDir, targetDir,
                            items, 1, recursive, env)

\* path.dirname
Dirname(path) ==
    LET slashes == {i \in 1..Len(path) : path[i] = "/"}
    IN  IF slashes = {} THEN <<".">>
        ELSE IF SetMax(slashes) = 1 THEN <<"/">>
        ELSE SubSeq(path, 1, SetMax(slashes) - 1)

AllPluginOptions ==
    [enabled : BOOLEAN, provider : {"openai", "invalid-provider"}, apiKey : {"", "test-key"},
     sourceLanguage : {"English"},
     targetLanguages : {<<>>, <<"German">>, <<"German", "French">>},
     preserveCodeBlocks : {TRUE}, preserveFrontmatter : {TRUE}, preserveLinks : {TRUE},
     outputDir : {"", "out"}]

TestDocuNotionOptions == [markdownOutputPath |-> "/test/docs"]

\* The constructor of TranslationPlugin.
NewTranslationPlugin(options, docuNotionOptions) ==
    [options |-> options, docuNotionOptions |-> docuNotionOptions]

getTargetDirectory(this, targetLanguage) ==
    IF this.options.outputDir # ""
    THEN Str(PosixJoin(Chars(this.options.outputDir), Chars(targetLanguage)))
    ELSE Str(PosixJoin(Dirname(Chars(this.docuNotionOptions.markdownOutputPath)),
                       Chars("i18n/" \o targetLanguage
                                 \o "/docusaurus-plugin-content-docs/current")))

\* reportTranslationResults: the counts it logs.
reportTranslationResults(run, targetLanguage) ==
    [run EXCEPT !.events = Append(@,
        [op |-> "report", path |-> targetLanguage,
         successCount |-> Len(SelectSeq(run.results, LAMBDA r : r.success)),
         failureCount |-> Len(SelectSeq(run.results, LAMBDA r : ~r.success))])]

\* What a language meets of the environment: its fault, when the fault is
\* that of every language or of this one.
EnvironmentOf(env, targetLanguage) ==
    IF env.faultyLanguage \in {"", targetLanguage} THEN env
    ELSE [env EXCEPT !.fault = "none"]

\* A translateToLanguage without its catch: what ensureDir throws leaves it.
translateToLanguageUncaught(run, this, sourceDir, targetLanguage, env) ==
    IF EnvironmentOf(env, targetLanguage).fault = "ensureDir_fails"
    THEN [run EXCEPT !.threw = TRUE, !.message = "EACCES"]
    ELSE reportTranslationResults(
             translateDirectory(
                 [Did(run, "ensureDir", getTargetDirectory(this, targetLanguage))
                     EXCEPT !.results = <<>>],
                 NewTranslationService(
                     [provider |-> this.options.provider, apiKey |-> this.options.apiKey,
                      sourceLanguage |-> this.options.sourceLanguage,
                      targetLanguage |-> targetLanguage,
                      preserveCodeBlocks |-> this.options.preserveCodeBlocks,
                      preserveFrontmatter |-> this.options.preserveFrontmatter,
                      preserveLinks |-> this.options.preserveLinks]),
                 sourceDir, getTargetDirectory(this, targetLanguage), env.tree, TRUE,
                 EnvironmentOf(env, targetLanguage)),
             targetLanguage)

\* translateToLanguage: a service for the language, its directory made, the
\* tree translated and reported; what is thrown inside is caught and logged.
translateToLanguage(run, this, sourceDir, targetLanguage, env) ==
    IF EnvironmentOf(env, targetLanguage).fault = "ensureDir_fails"
    THEN Did(run, "language_failed", targetLanguage)
    ELSE reportTranslationResults(
             translateDirectory(
                 [Did(run, "ensureDir", getTargetDirectory(this, targetLanguage))
                     EXCEPT !.results = <<>>],
                 NewTranslationService(
                     [provider |-> this.options.provider, apiKey |-> this.options.apiKey,
                      sourceLanguage |-> this.options.sourceLanguage,
                      targetLanguage |-> targetLanguage,
                      preserveCodeBlocks |-> this.options.preserveCodeBlocks,
                      preserveFrontmatter |-> this.options.preserveFrontmatter,
                      preserveLinks |-> this.options.preserveLinks]),
                 sourceDir, getTargetDirectory(this, targetLanguage), env.tree, TRUE,
                 EnvironmentOf(env, targetLanguage)),
             targetLanguage)

\* The loop of lines 119-121 from the i-th target language on; an error that
\* is thrown leaves the loop.
RECURSIVE TranslateToLanguagesFrom(_, _, _, _, _)
TranslateToLanguagesFrom(run, this, sourceDir, i, env) ==
    IF run.threw \/ i > Len(this.options.targetLanguages) THEN run
    ELSE TranslateToLanguagesFrom(
             translateToLanguage(run, this, sourceDir, this.options.targetLanguages[i], env),
             this, sourceDir, i + 1, env)

\* A plugin that goes on unless it is disabled.
SkipsOnlyWhenDisabled(this) == ~this.options.enabled

\* Lines 94-107: disabled, without API key, or without target language.
SkipsTranslation(this) ==
    \/ ~this.options.enabled
    \/ this.options.apiKey = ""
    \/ Len(this.options.targetLanguages) = 0

translateGeneratedContent(this, env) ==
    IF SkipsTranslation(this) THEN StartOfRun
    ELSE IF env.fault = "pathExists_fails"
    THEN [StartOfRun EXCEPT !.threw = TRUE, !.message = "EIO"]
    ELSE IF ~env.sourceExists
    THEN Did(StartOfRun, "pathExists", this.docuNotionOptions.markdownOutputPath)
    ELSE TranslateToLanguagesFrom(
             Did(StartOfRun, "pathExists", this.docuNotionOptions.markdownOutputPath),
             this, this.docuNotionOptions.markdownOutputPath, 1, env)

\* faultyLanguage: the target language whose translation meets the fault,
\* every language when it is empty.
PluginEnvironments ==
    [sourceExists : BOOLEAN, tree : SourceTrees, fault : FsFaults,
     faultyLanguage : {"", "German", "French"},
     reply : {r \in ProviderReplies : r.usage.defined /\ (r.kind = "rejects" \/ r.blocks # <<>>)
                                         /\ r.error.isError}]

TranslateGeneratedContentCalls ==
    [fn : {"translateGeneratedContent"},
     this : {NewTranslationPlugin(o, TestDocuNotionOptions) : o \in AllPluginOptions},
     env : {e \in PluginEnvironments : /\ e.sourceExists \/ e.tree = <<>>
                                       /\ e.fault = "none" => e.faultyLanguage = ""}]

\* value.trim() === ''
IsBlank(text) == Trim(Chars(text)) = <<>>

ProviderMessage == "Translation provider must be either \"openai\" or \"anthropic\""

ApiKeyMessage == "Translation API key is required"

SourceLanguageMessage == "Source language is required"

TargetLanguagesMessage == "At least one target language is required"

SourceAmongTargetsMessage == "Target languages cannot include the source language"

\* A validation that takes a key of spaces for a key.
ApiKeyErrorsUntrimmed(options) == IF options.apiKey = "" THEN <<ApiKeyMessage>> ELSE <<>>

\* Line 234: !options.apiKey || options.apiKey.trim() === ''
ApiKeyErrors(options) ==
    IF options.apiKey = "" \/ IsBlank(options.apiKey) THEN <<ApiKeyMessage>> ELSE <<>>

\* TranslationPlugin.validateOptions(options)
validateOptions(options) ==
    IF ~options.enabled THEN <<>>
    ELSE (IF options.provider = "" \/ options.provider \notin {"openai", "anthropic"}
          THEN <<ProviderMessage>> ELSE <<>>)
         \o ApiKeyErrors(options)
         \o (IF options.sourceLanguage = "" \/ IsBlank(options.sourceLanguage)
             THEN <<SourceLanguageMessage>> ELSE <<>>)
         \o (IF Len(options.targetLanguages) = 0 THEN <<TargetLanguagesMessage>> ELSE <<>>)
         \o (IF options.sourceLanguage \in Range(options.targetLanguages)
             THEN <<SourceAmongTargetsMessage>> ELSE <<>>)

ValidatedOptions ==
    [enabled : BOOLEAN, provider : {"openai", "anthropic", "", "invalid"},
     apiKey : {"", "  ", "test-key"}, sourceLanguage : {"", " ", "English"},
     targetLanguages : {<<>>, <<"German">>, <<"English", "German">>, <<"">>},
     preserveCodeBlocks : {TRUE}, preserveFrontmatter : {TRUE}, preserveLinks : {TRUE},
     outputDir : {""}]

ValidateOptionsCalls == [fn : {"validateOptions"}, options : ValidatedOptions]

\* The calls of translateFile on its own: a page, where its translation goes,
\* and what the file system and the provider do.
TranslateFileCalls ==
    UNION { [fn : {"translateFile"}, this : {NewTranslationService(o)},
             sourcePath : {"/docs/a.md"}, targetPath : {"/out/German/a.md", "a.md"},
             env : [fault : {"none", "readFile_fails", "ensureDir_fails", "writeFile_fails"},
                    reply : RepliesOf(o.provider)]] : o \in AllTranslationOptions }

TranslationCalls ==
    TranslateMarkdownCalls \cup TranslateGeneratedContentCalls \cup ValidateOptionsCalls
        \cup TranslateFileCalls

InitTranslation ==
    /\ locales = [defined |-> FALSE, list |-> <<>>]
    /\ imagePrefix = ""
    /\ imageOutputPath = ""
    /\ existingImagesNotSeenYetInPull = <<>>
    /\ disk = NoFiles
    /\ runOptions = [imageFileNameFormat |-> "default", forceRefreshImages |-> FALSE]
    /\ calls = 0
    /\ processed = <<>>
    /\ writeLog = <<>>
    /\ configuredPrefix = ""
    /\ last = NoCall
    /\ applied \in TranslationCalls
    /\ value = NotReturned

\* TranslationService.translateMarkdown(content, filename)
TranslateMarkdown ==
    /\ applied.fn = "translateMarkdown"
    /\ value = NotReturned
    /\ value' = <<translateMarkdown(applied.this, applied.content, applied.filename,
                                    applied.reply)>>
    /\ UNCHANGED <<pipelineVars, applied>>

\* TranslationPlugin.translateGeneratedContent()
TranslateGeneratedContent ==
    /\ applied.fn = "translateGeneratedContent"
    /\ value = NotReturned
    /\ value' = <<translateGeneratedContent(applied.this, applied.env)>>
    /\ UNCHANGED <<pipelineVars, applied>>

\* TranslationPlugin.validateOptions(options)
ValidateOptions ==
    /\ applied.fn = "validateOptions"
    /\ value = NotReturned
    /\ value' = <<validateOptions(applied.options)>>
    /\ UNCHANGED <<pipelineVars, applied>>

\* TranslationService.translateFile(sourcePath, targetPath)
TranslateFile ==
    /\ applied.fn = "translateFile"
    /\ value = NotReturned
    /\ value' = <<translateFile(StartOfRun, applied.this, applied.sourcePath,
                                applied.targetPath, Str(Dirname(Chars(applied.targetPath))),
                                applied.env)>>
    /\ UNCHANGED <<pipelineVars, applied>>

NextTranslation ==
    \/ TranslateFile
    \/ TranslateMarkdown
    \/ TranslateGeneratedContent
    \/ ValidateOptions

SpecTranslation == InitTranslation /\ [][NextTranslation]_vars

(***************************************************************************)
(* standardHeadingTransformer (plugins/HeadingTransformer.ts).  A block is *)
(* its id, its type and its data by key (heading_1 |-> rich text, ...).    *)
(***************************************************************************)
\* String.prototype.replace(pat, rep) for a string pattern: the first
\* occurrence only.
ReplaceFirst(s, pat, rep) ==
    LET at == {i \in 1..Len(s) : OccursAt(s, pat, i)}
    IN  IF at = {} THEN s
        ELSE SubSeq(s, 1, SetMin(at) - 1) \o rep \o SubSeq(s, SetMin(at) + Len(pat), Len(s))

LevelDigits == <<"1", "2", "3", "4">>

\* parseInt of one digit.
ParseLevel(text) == CHOOSE n \in 1..Len(LevelDigits) : LevelDigits[n] = text

HeadingKey(level) == "heading_" \o LevelDigits[level]

PlainText(heading) == StrConcat(heading.rich_text)

\* The transformer registered for heading_4 (lines 71-78).
HeadingFour(block) ==
    "#### " \o (IF "heading_4" \in DOMAIN block.data THEN PlainText(block.data["heading_4"])
                ELSE "")

\* notion-to-md's own rendering of heading_1 to heading_3, for text without
\* annotations: the hashes of the level, a space, the text.
BuiltInHeading(block) ==
    LET level == ParseLevel(Str(ReplaceFirst(Chars(block.type), Chars("heading_"), <<>>)))
    IN  StrConcat([i \in 1..level |-> "#"]) \o " " \o PlainText(block.data[block.type])

\* notionToMarkdown.blockToMarkdown with the transforms of the plugin: the
\* custom transformer of the type where there is one.
blockToMarkdown(block) ==
    IF block.type = "heading_4" THEN HeadingFour(block) ELSE BuiltInHeading(block)

headingTransformerWithLevelShift(block, targetLevel) ==
    LET originalLevel ==
            ParseLevel(Str(ReplaceFirst(Chars(block.type), Chars("DN_heading_"), <<>>)))
        headingKey == HeadingKey(originalLevel)
        targetHeadingKey == HeadingKey(targetLevel)
        modifiedBlock ==
            [block EXCEPT
                !.type = HeadingKey(targetLevel),
                !.data = IF headingKey \in DOMAIN block.data
                         THEN (targetHeadingKey :> block.data[headingKey])
                                  @@ [k \in (DOMAIN block.data) \ {headingKey} |-> block.data[k]]
                         ELSE @]
        blockIdWithoutDashes == Str(ReplaceAll(Chars(block.id), <<"-">>, <<>>))
    IN  blockToMarkdown(modifiedBlock) \o " {#" \o blockIdWithoutDashes \o "}"

\* notionBlockModifications: heading_N becomes DN_heading_N.
ModifiedHeading(block) ==
    [block EXCEPT !.type = Str(ReplaceFirst(Chars(@), Chars("heading"), Chars("DN_heading")))]

\* A registration that gives each heading its own level back.
TargetLevelUnshifted(type) ==
    ParseLevel(Str(ReplaceFirst(Chars(type), Chars("DN_heading_"), <<>>)))

\* notionToMarkdownTransforms: DN_heading_1, 2, 3 are rendered at level 2, 3, 4.
TargetLevel(type) ==
    IF type = "DN_heading_1" THEN 2 ELSE IF type = "DN_heading_2" THEN 3 ELSE 4

\* The plugin on one block: the modification, then the transformer of the
\* modified type.
standardHeadingTransformer(block) ==
    headingTransformerWithLevelShift(ModifiedHeading(block), TargetLevel(ModifiedHeading(block).type))

HeadingIds ==
    {"86f746f4-1c79-4ba1-a2f6-a1d59c2f9d23", "23ffa6da-3fef-801c-8982-ee61757836e8",
     "abc", "a-b", "-a--"}

HeadingTexts ==
    {<<>>, <<"Heading One">>, <<"Heading 3 Test">>, <<"Head", "ing ", "One">>, <<"a-b #c">>}

HeadingLevels == 1..3

HeadingBlocks ==
    {[id |-> i, type |-> HeadingKey(n),
      data |-> (HeadingKey(n) :> [rich_text |-> t, is_toggleable |-> FALSE])] :
        i \in HeadingIds, n \in HeadingLevels, t \in HeadingTexts}

InitHeadings ==
    /\ locales = [defined |-> FALSE, list |-> <<>>]
    /\ imagePrefix = ""
    /\ imageOutputPath = ""
    /\ existingImagesNotSeenYetInPull = <<>>
    /\ disk = NoFiles
    /\ runOptions = [imageFileNameFormat |-> "default", forceRefreshImages |-> FALSE]
    /\ calls = 0
    /\ processed = <<>>
    /\ writeLog = <<>>
    /\ configuredPrefix = ""
    /\ last = NoCall
    /\ applied \in [fn : {"standardHeadingTransformer"}, block : HeadingBlocks]
    /\ value = NotReturned

StandardHeadingTransformer ==
    /\ applied.fn = "standardHeadingTransformer"
    /\ value = NotReturned
    /\ value' = <<standardHeadingTransformer(applied.block)>>
    /\ UNCHANGED <<pipelineVars, applied>>

NextHeadings ==
    \/ StandardHeadingTransformer

SpecHeadings == InitHeadings /\ [][NextHeadings]_vars

(***************************************************************************)
(* NotionPageCache (NotionPageCache.ts): the cache of the pages pulled,    *)
(* page id |-> {lastEditedTime}, loaded from .docu-notion-cache.json in    *)
(* the output directory when the object is built and written back by save. *)
(* value holds the object and its file: cache, the private field; file,    *)
(* what is at cachePath; known, the pages loaded or added since the object *)
(* was built; call, the last call of a method and what it returned.        *)
(***************************************************************************)
PageIds == {"page1", "page2"}

\* Times as the Notion API gives them, shortened: ISO 8601 strings, one of
\* them a prefix of another.
EditTimes == {Chars("2024-01"), Chars("2024-01-02"), Chars("2024-01-10")}

\* a <= b of two JavaScript strings: the order of the first code unit in
\* which they differ, a prefix coming before what it is a prefix of.
RECURSIVE StringLessOrEqual(_, _)
StringLessOrEqual(a, b) ==
    IF a = <<>> THEN TRUE
    ELSE IF b = <<>> THEN FALSE
    ELSE IF Head(a) = Head(b) THEN StringLessOrEqual(Tail(a), Tail(b))
    ELSE CharCode(Head(a)) < CharCode(Head(b))

EmptyCache == [p \in {} |-> [lastEditedTime |-> <<>>]]

\* The caches a file can hold: no page, or some of the pages with a time each.
StoredCaches ==
    UNION { [ids -> [lastEditedTime : EditTimes]] : ids \in SUBSET PageIds }

\* What is at cachePath: nothing, something readJsonSync throws on, or the
\* JSON of a cache.
NoCacheFile == [kind |-> "absent", data |-> EmptyCache]

CorruptCacheFile == [kind |-> "corrupt", data |-> EmptyCache]

CacheFileOf(cache) == [kind |-> "json", data |-> cache]

CacheFiles == {NoCacheFile, CorruptCacheFile} \cup {CacheFileOf(c) : c \in StoredCaches}

\* load(): the cache of the file when it is there and can be read, the
\* empty cache of the field initialiser otherwise.
load(file) == IF file.kind = "json" THEN file.data ELSE EmptyCache

\* isPageInCacheAndUpToDate(pageId, lastEditedTime)
isPageInCacheAndUpToDate(cache, pageId, lastEditedTime) ==
    IF pageId \notin DOMAIN cache THEN FALSE
    ELSE StringLessOrEqual(lastEditedTime, cache[pageId].lastEditedTime)

\* An addPage that keeps the entry a page already has.
addPageKeepingFirst(cache, pageId, lastEditedTime) ==
    cache @@ (pageId :> [lastEditedTime |-> lastEditedTime])

\* addPage(pageId, lastEditedTime): this.cache[pageId] = { lastEditedTime }
addPage(cache, pageId, lastEditedTime) ==
    (pageId :> [lastEditedTime |-> lastEditedTime]) @@ cache

\* save(): the cache written to cachePath; a write that throws is caught and
\* leaves the file as it was.
save(cache, file, writeThrows) == IF writeThrows THEN file ELSE CacheFileOf(cache)

CacheCall(op, pageId, lastEditedTime, result, cacheBefore) ==
    [op |-> op, pageId |-> pageId, lastEditedTime |-> lastEditedTime, result |-> result,
     cacheBefore |-> cacheBefore]

\* new NotionPageCache(outputDir) over what is at cachePath.
NewNotionPageCache(file) ==
    [cache |-> load(file), file |-> file, known |-> DOMAIN load(file),
     call |-> CacheCall("constructor", "", <<>>, FALSE, EmptyCache)]

InitPageCache ==
    /\ locales = [defined |-> FALSE, list |-> <<>>]
    /\ imagePrefix = ""
    /\ imageOutputPath = ""
    /\ existingImagesNotSeenYetInPull = <<>>
    /\ disk = NoFiles
    /\ runOptions = [imageFileNameFormat |-> "default", forceRefreshImages |-> FALSE]
    /\ calls = 0
    /\ processed = <<>>
    /\ writeLog = <<>>
    /\ configuredPrefix = ""
    /\ last = NoCall
    /\ applied = [fn |-> "NotionPageCache"]
    /\ value \in {NewNotionPageCache(f) : f \in CacheFiles}

IsPageInCacheAndUpToDate(pageId, lastEditedTime) ==
    /\ applied.fn = "NotionPageCache"
    /\ value' = [value EXCEPT !.call =
                    CacheCall("isPageInCacheAndUpToDate", pageId, lastEditedTime,
                              isPageInCacheAndUpToDate(value.cache, pageId, lastEditedTime),
                              value.cache)]
    /\ UNCHANGED <<pipelineVars, applied>>

AddPage(pageId, lastEditedTime) ==
    /\ applied.fn = "NotionPageCache"
    /\ value' = [value EXCEPT !.cache = addPage(@, pageId, lastEditedTime),
                              !.known = @ \cup {pageId},
                              !.call = CacheCall("addPage", pageId, lastEditedTime, FALSE,
                                                 value.cache)]
    /\ UNCHANGED <<pipelineVars, applied>>

Save(writeThrows) ==
    /\ applied.fn = "NotionPageCache"
    /\ value' = [value EXCEPT !.file = save(value.cache, @, writeThrows),
                              !.call = CacheCall("save", "", <<>>, FALSE, value.cache)]
    /\ UNCHANGED <<pipelineVars, applied>>

\* The next run builds its cache from the file this one has left.
Reload ==
    /\ applied.fn = "NotionPageCache"
    /\ value' = NewNotionPageCache(value.file)
    /\ UNCHANGED <<pipelineVars, applied>>

NextPageCache ==
    \/ \E pageId \in PageIds, lastEditedTime \in EditTimes :
           IsPageInCacheAndUpToDate(pageId, lastEditedTime)
    \/ \E pageId \in PageIds, lastEditedTime \in EditTimes : AddPage(pageId, lastEditedTime)
    \/ \E writeThrows \in BOOLEAN : Save(writeThrows)
    \/ Reload

SpecPageCache == InitPageCache /\ [][NextPageCache]_vars

(***************************************************************************)
(* The list optimizer (part_002): optimizeListProcessing groups the runs   *)
(* of list items of a block list into virtual list_item_group blocks.      *)
(* A block is its id, its type and has_children; a group block holds its   *)
(* blocks under list_item_group.children.                                  *)
(***************************************************************************)
LIST_ITEM_GROUP_TYPE == "list_item_group"

MIN_BLOCKS_TO_OPTIMIZE == 10

MIN_GROUP_SIZE_TO_OPTIMIZE == 3

\* isListItem: the three list types of Notion.
isListItem(block) ==
    \/ block.type = "bulleted_list_item"
    \/ block.type = "numbered_list_item"
    \/ block.type = "to_do"

\* A processGroup that groups only what is longer than the threshold.
processGroupAboveThreshold(result, group) ==
    IF Len(group) <= MIN_GROUP_SIZE_TO_OPTIMIZE
    THEN result \o group
    ELSE Append(result,
                [type |-> LIST_ITEM_GROUP_TYPE,
                 id |-> "group-" \o group[1].id,
                 has_children |-> FALSE,
                 list_item_group |-> [children |-> group]])

\* processGroup: a short group is pushed block by block, a longer one as one
\* virtual block; the result array after the call.
processGroup(result, group) ==
    IF Len(group) < MIN_GROUP_SIZE_TO_OPTIMIZE
    THEN result \o group
    ELSE Append(result,
                [type |-> LIST_ITEM_GROUP_TYPE,
                 id |-> "group-" \o group[1].id,
                 has_children |-> FALSE,
                 list_item_group |-> [children |-> group]])

\* The for-loop of lines 21-35 from the i-th block on: result and
\* currentGroup when the loop is left.
RECURSIVE GroupBlocksFrom(_, _, _, _)
GroupBlocksFrom(blocks, i, result, currentGroup) ==
    IF i > Len(blocks) THEN [result |-> result, currentGroup |-> currentGroup]
    ELSE IF isListItem(blocks[i])
         THEN GroupBlocksFrom(blocks, i + 1, result, Append(currentGroup, blocks[i]))
         ELSE IF Len(currentGroup) > 0
              THEN GroupBlocksFrom(blocks, i + 1,
                                   Append(processGroup(result, currentGroup), blocks[i]), <<>>)
              ELSE GroupBlocksFrom(blocks, i + 1, Append(result, blocks[i]), <<>>)

\* An optimizeListProcessing that returns when the loop is left.
optimizeListProcessingWithoutFinalGroup(blocks) ==
    IF Len(blocks) < MIN_BLOCKS_TO_OPTIMIZE THEN blocks
    ELSE GroupBlocksFrom(blocks, 1, <<>>, <<>>).result

\* optimizeListProcessing: a short list is returned as it is; otherwise the
\* loop, and the group that is open at its end processed.
optimizeListProcessing(blocks) ==
    IF Len(blocks) < MIN_BLOCKS_TO_OPTIMIZE THEN blocks
    ELSE LET scanned == GroupBlocksFrom(blocks, 1, <<>>, <<>>)
         IN  IF Len(scanned.currentGroup) > 0
             THEN processGroup(scanned.result, scanned.currentGroup)
             ELSE scanned.result

\* The longest block list of the inputs.
MaxBlocks == 11

\* The lengths of the inputs: one below the threshold of the list that holds
\* a whole group, and those around it.
InputLengths ==
    {MIN_GROUP_SIZE_TO_OPTIMIZE} \cup ((MIN_BLOCKS_TO_OPTIMIZE - 1)..MaxBlocks)

ListItemTypes == <<"bulleted_list_item", "numbered_list_item", "to_do">>

\* A block as the Notion API gives it, the i-th of its list.
NotionBlockAt(i, type) ==
    [id |-> "b" \o ToString(i), type |-> type, has_children |-> FALSE]

\* The block lists: the positions in listed hold list items, whose types
\* take turns from the shift on, and the other positions paragraphs.
BlockLists ==
    UNION {{[i \in 1..n |->
                NotionBlockAt(i, IF i \in listed
                                 THEN ListItemTypes[((i + shift) % Len(ListItemTypes)) + 1]
                                 ELSE "paragraph")] :
              listed \in SUBSET (1..n), shift \in 0..(Len(ListItemTypes) - 1)} :
           n \in InputLengths}

InitListOptimizer ==
    /\ locales = [defined |-> FALSE, list |-> <<>>]
    /\ imagePrefix = ""
    /\ imageOutputPath = ""
    /\ existingImagesNotSeenYetInPull = <<>>
    /\ disk = NoFiles
    /\ runOptions = [imageFileNameFormat |-> "default", forceRefreshImages |-> FALSE]
    /\ calls = 0
    /\ processed = <<>>
    /\ writeLog = <<>>
    /\ configuredPrefix = ""
    /\ last = NoCall
    /\ applied \in [fn : {"optimizeListProcessing"}, blocks : BlockLists]
    /\ value = NotReturned

OptimizeListProcessing ==
    /\ applied.fn = "optimizeListProcessing"
    /\ value = NotReturned
    /\ value' = <<optimizeListProcessing(applied.blocks)>>
    /\ UNCHANGED <<pipelineVars, applied>>

NextListOptimizer ==
    \/ OptimizeListProcessing

SpecListOptimizer == InitListOptimizer /\ [][NextListOptimizer]_vars

(***************************************************************************)
(* What the trace of the last call says                                    *)
(***************************************************************************)
LastEvents(op) == SelectSeq(last.events, LAMBDA e : e.op = op)

\* The decisions of the cache gate in the last call, the check of line 132
\* among them.
LastDecisions == SelectSeq(last.events, LAMBDA e : e.op \in {"gate", "precheck"})

EarlyFormat == runOptions.imageFileNameFormat \in {"default", "legacy"}

ForceRefresh == runOptions.forceRefreshImages

\* The last call processed, without error, a block that an earlier call of
\* the run had processed without error.
RepeatedCall == last.op = "process" /\ last.repeat /\ last.err = ""

(***************************************************************************)
(* C1  Idempotence.  In the default and legacy formats without forced      *)
(* refresh, processing again a block that the run has already processed,   *)
(* against the tree the first processing left, fetches nothing and writes  *)
(* nothing: every primary and localized path is skipped.                   *)
(***************************************************************************)
C1_SecondRunIsIdle ==
    (last.op = "process" /\ last.repeat /\ EarlyFormat /\ ~ForceRefresh)
        => /\ last.err = ""
           /\ last.nfetch = 0
           /\ last.nwrite = 0
           /\ \A i \in 1..Len(LastDecisions) : LastDecisions[i].info = "skip"
           /\ disk = last.filesBefore

\* A second processing of a block with localized images, all of them skipped.
C1_Witness ==
    /\ RepeatedCall /\ EarlyFormat /\ ~ForceRefresh
    /\ Len(last.imageSet.localizedUrls) >= 2
    /\ Len(LastDecisions) >= 3
    /\ last.nfetch = 0 /\ last.nwrite = 0

(***************************************************************************)
(* C2  Garbage collection.  A prior run has left the files A and B; the    *)
(* current run is initialised, processes a block that touches only A, and  *)
(* calls cleanupOldImages: after it B is gone and A is there with the      *)
(* content it had.                                                         *)
(***************************************************************************)
PathA == Str(FileA)

PathB == Str(FileB)

\* The run has processed a block whose primary path is A, without writing it.
TouchedOnlyA ==
    /\ \E i \in 1..Len(processed) : processed[i].primaryFileOutputPath = PathA
    /\ \A i \in 1..Len(writeLog) : writeLog[i] \notin {PathA, PathB}

C2_CleanupRemovesUntouched ==
    (/\ last.op = "cleanup" /\ last.err = ""
     /\ locales.defined /\ TouchedOnlyA
     /\ {FsKeyTable[PathA], FsKeyTable[PathB]} \subseteq DOMAIN last.filesBefore)
        => /\ FsKeyTable[PathB] \notin DOMAIN disk
           /\ FsKeyTable[PathA] \in DOMAIN disk
           /\ disk[FsKeyTable[PathA]] = last.filesBefore[FsKeyTable[PathA]]

LastWrote(path) == \E i \in 1..Len(last.events) :
                       last.events[i].op = "write" /\ last.events[i].target = path

LastFetched(url) == \E i \in 1..Len(last.events) :
                        last.events[i].op = "fetch" /\ last.events[i].target = url

LastLocalizedPath(i) ==
    LocalizedPathTable[<<last.imageSet.localizedUrls[i].iso632Code,
                         last.imageSet.pageInfo.relativeFilePathToFolderContainingPage,
                         last.imageSet.outputFileName>>]

C4_ForceRefreshSkipsNothing ==
    (last.op = "process" /\ ForceRefresh)
        => /\ \A i \in 1..Len(LastDecisions) : LastDecisions[i].info # "skip"
           /\ last.err = ""
                => /\ LastFetched(last.imageSet.primaryUrl)
                   /\ LastWrote(last.imageSet.primaryFileOutputPath)
                   /\ \A i \in 1..Len(last.imageSet.localizedUrls) :
                          LastWrote(LastLocalizedPath(i))

\* A forced refresh of a block whose primary file was there before the call.
C4_Witness ==
    /\ last.op = "process" /\ ForceRefresh /\ last.err = ""
    /\ FsKeyTable[last.imageSet.primaryFileOutputPath] \in DOMAIN last.filesBefore
    /\ Len(last.imageSet.localizedUrls) >= 1
    /\ LastWrote(last.imageSet.primaryFileOutputPath)

(***************************************************************************)
(* C5  Cleanup is best-effort.  A removal that fails does not end the      *)
(* sweep: every other path left in the registry is removed, and            *)
(* cleanupOldImages raises no error.                                       *)
(***************************************************************************)
LastFailedRemovals ==
    {last.events[i].target : i \in {j \in 1..Len(last.events) : last.events[j].op = "rm_failed"}}

C6_ParseBeforeInitFails ==
    (last.op = "process" /\ ~locales.defined)
        => /\ last.err = "ConfigurationError"
           /\ last.nfetch = 0 /\ last.nwrite = 0 /\ last.events = <<>>
           /\ disk = last.filesBefore
           /\ existingImagesNotSeenYetInPull = last.registryBefore
           /\ last.blockAfter = last.block

\* A block with a caption and a locale line handed over before the
\* initialisation.
C6_Witness ==
    /\ last.op = "process" /\ ~locales.defined
    /\ last.err = "ConfigurationError"
    /\ last.block.image.caption # <<>>

(***************************************************************************)
(* C7  A fetch, of the primary or of a localized URL, that ends in a       *)
(* non-success outcome fails the processing of the block with an error     *)
(* that reaches the caller, and the body of a non-success response is not  *)
(* written to any output path.                                             *)
(***************************************************************************)
LastFetchFailed == \E i \in 1..Len(last.events) :
                       last.events[i].op = "fetch" /\ last.events[i].info # "ok"

C7_FailedFetchFailsTheBlock ==
    (last.op = "process" /\ LastFetchFailed)
        => /\ last.err # ""
           /\ \A i \in 1..Len(last.events) :
                  last.events[i].op = "write" => last.events[i].bytes # ErrorBody

(***************************************************************************)
(* C8  All-or-nothing rewrite of the block.  When processImageBlock fails, *)
(* the URL and the caption of the block are what they were before the      *)
(* call; the URL is replaced by the local reference only when every fetch  *)
(* and write of the block has been done.                                   *)
(***************************************************************************)
C8_RewriteOnlyOnSuccess ==
    last.op = "process"
        => /\ last.err # "" => last.blockAfter = last.block
           /\ last.blockAfter # last.block
                => /\ last.err = ""
                   /\ last.blockAfter.image.url = last.imageSet.filePathToUseInMarkdown

\* A call that fails after it has written a file.
C8_Witness ==
    /\ last.op = "process"
    /\ last.err \in {"FetchError", "WriteError"}
    /\ Len(LastEvents("write")) >= 1
    /\ last.blockAfter = last.block

(***************************************************************************)
(* C9  After a processImageBlock that succeeds, the URL of the block is    *)
(* prefix, "/" and outputFileName, the prefix being the configured one     *)
(* without one trailing slash, or "." where none is configured; the        *)
(* caption is one run holding the cleaned caption, or empty where that is  *)
(* empty; and the transformer returns ![caption](reference).               *)
(***************************************************************************)
ClaimedReference ==
    (IF configuredPrefix = "" THEN "." ELSE imagePrefix)
        \o "/" \o last.imageSet.outputFileName

C9_LocalReference ==
    (last.op = "process" /\ last.err = "")
        => /\ last.blockAfter.image.url = ClaimedReference
           /\ last.blockAfter.image.caption =
                  (IF last.imageSet.caption = "" THEN <<>> ELSE <<last.imageSet.caption>>)
           /\ last.markdown =
                  "![" \o last.imageSet.caption \o "](" \o ClaimedReference \o ")"

(***************************************************************************)
(* C10  Content dedup.  In the content-hash format, two blocks whose       *)
(* primary URLs differ and whose bytes are the same get the same           *)
(* outputFileName, and the primary path is written exactly once.           *)
(***************************************************************************)
\* The calls i and j ended without error, for primary URLs that differ and
\* bytes that are the same.
SameBytesPair(i, j) ==
    /\ i < j
    /\ processed[i].primaryUrl # processed[j].primaryUrl
    /\ processed[i].bytes = processed[j].bytes

\* The writes of the run to the primary paths of the calls i and j.
PrimaryWrites(i, j) ==
    Len(SelectSeq(writeLog, LAMBDA p : p \in {processed[i].primaryFileOutputPath,
                                              processed[j].primaryFileOutputPath}))

\* As the claim states it.
C10_Dedup ==
    runOptions.imageFileNameFormat = "content-hash"
        => \A i, j \in 1..Len(processed) :
               SameBytesPair(i, j)
                   => /\ processed[i].outputFileName = processed[j].outputFileName
                      /\ PrimaryWrites(i, j) = 1

\* With no forced refresh, one output directory for both blocks, and no file
\* of the name there before the run.
C10_DedupWithoutForce ==
    (runOptions.imageFileNameFormat = "content-hash" /\ ~ForceRefresh /\ imageOutputPath # "")
        => \A i, j \in 1..Len(processed) :
               (/\ SameBytesPair(i, j)
                /\ FsKeyTable[processed[i].primaryFileOutputPath] \notin DOMAIN PriorTree)
                   => /\ processed[i].outputFileName = processed[j].outputFileName
                      /\ processed[j].primaryFileOutputPath = processed[i].primaryFileOutputPath
                      /\ PrimaryWrites(i, j) = 1

\* Two blocks of the same bytes processed, the second one finding the file.
C10_Witness ==
    /\ runOptions.imageFileNameFormat = "content-hash" /\ ~ForceRefresh /\ imageOutputPath # ""
    /\ \E i, j \in 1..Len(processed) : SameBytesPair(i, j)
    /\ last.op = "process" /\ last.err = ""
    /\ \E i \in 1..Len(last.events) :
           /\ last.events[i].op = "gate" /\ last.events[i].info = "skip"
           /\ last.events[i].target = last.imageSet.primaryFileOutputPath


(***************************************************************************)
(* C11  Locale extraction.  For a caption split on newlines, every line    *)
(* made of a two-character locale code, whitespace and an https:// URL     *)
(* adds the entry {code in lower case, that URL} to localizedUrls and      *)
(* gives nothing to the caption; the caption is the other lines in their   *)
(* order, joined by single spaces and trimmed.                             *)
(***************************************************************************)
\* Where the URL of a locale line starts: behind two characters of code and
\* at least one character of whitespace; 0 when the line is no locale line.
LocaleLineUrlStart(l) ==
    LET starts == {u \in 4..Len(l) :
                      /\ OccursAt(l, HttpsPrefix, u)
                      /\ \A i \in 3..(u - 1) : IsSpace(l[i])}
    IN  IF Len(l) >= 2 /\ ~IsSpace(l[1]) /\ ~IsSpace(l[2]) /\ starts # {}
        THEN SetMin(starts) ELSE 0

IsLocaleLine(l) == LocaleLineUrlStart(l) > 0

LocaleLineEntry(l) ==
    [iso632Code |-> ToLowerCase(SubSeq(l, 1, 2)),
     url |-> SubSeq(l, LocaleLineUrlStart(l), Len(l))]

ParseReturned == applied.fn = "parseImageBlock" /\ value # NotReturned

\* The entries the caption lines have added behind those of the locale list.
AddedEntries ==
    SubSeq(value[1].localizedUrls, Len(applied.localeList) + 1, Len(value[1].localizedUrls))

LocaleLinesOf(lines) == SelectSeq(lines, IsLocaleLine)

OtherLinesOf(lines) == SelectSeq(lines, LAMBDA l : ~IsLocaleLine(l))

C11_LocaleExtraction ==
    ParseReturned =>
        /\ \A i \in 1..Len(LocaleLinesOf(applied.lines)) :
               \E j \in 1..Len(AddedEntries) :
                   AddedEntries[j] = LocaleLineEntry(LocaleLinesOf(applied.lines)[i])
        /\ value[1].caption = Trim(JoinWith(OtherLinesOf(applied.lines), <<" ">>))


(***************************************************************************)
(* C12  Fallback.  For every localized entry whose override URL is empty   *)
(* and whose file is written, the bytes written to the locale path are the *)
(* bytes of the primary image; and that locale path differs from the       *)
(* primary output path and from the path of every other locale code.       *)
(***************************************************************************)
\* The trace of a call marks a path seen once for the primary image and then
\* once at the start of each localized entry: the events of the j-th entry
\* are those with j + 1 marks at or before them.
SeenPositions == {k \in 1..Len(last.events) : last.events[k].op = "seen"}

EntryEvents(j) ==
    {k \in 1..Len(last.events) : Cardinality({m \in SeenPositions : m <= k}) = j + 1}

EntryPath(j) == last.events[SetMin(EntryEvents(j))].target

EntryWrites(j) == {k \in EntryEvents(j) : last.events[k].op = "write"}

\* The bytes the primary URL has given in the call before event k.
PrimaryBytesBefore(k) ==
    {last.events[f].bytes : f \in {g \in 1..(k - 1) :
        /\ last.events[g].op = "fetch"
        /\ last.events[g].target = last.imageSet.primaryUrl
        /\ last.events[g].info # "rejected"}}

FallbackEntries ==
    {j \in 1..Len(last.imageSet.localizedUrls) :
        last.imageSet.localizedUrls[j].url = "" /\ EntryWrites(j) # {}}

C12_Fallback ==
    last.op = "process" =>
        \A j \in FallbackEntries :
            /\ \A k \in EntryWrites(j) :
                   /\ last.events[k].target = EntryPath(j)
                   /\ last.events[k].bytes \in PrimaryBytesBefore(k)
            /\ EntryPath(j) # last.imageSet.primaryFileOutputPath
            /\ \A i \in 1..Len(last.imageSet.localizedUrls) :
                   (EntryEvents(i) # {} /\ last.imageSet.localizedUrls[i].iso632Code
                                              # last.imageSet.localizedUrls[j].iso632Code)
                       => EntryPath(i) # EntryPath(j)

\* A call that found the primary file, skipped its download, and wrote the
\* copies of two locales that have no override.
C12_Witness ==
    /\ last.op = "process"
    /\ last.err = ""
    /\ Cardinality(FallbackEntries) >= 2
    /\ \E k \in 1..Len(last.events) :
           last.events[k].op = "precheck" /\ last.events[k].info = "skip"


(***************************************************************************)
(* C13  Extension fallback.  In default and legacy modes, for a primary    *)
(* URL whose path (the part before any query string) has no file           *)
(* extension, the planned outputFileName ends in the default extension     *)
(* ".png".                                                                 *)
(***************************************************************************)
PlansReturned == applied.fn = "makeImagePersistencePlanWithoutBuffer" /\ value # NotReturned

\* The last segment of the path of the URL, the query string left out.
LastPathSegment(url) == Last(SplitChar(UrlBeforeQuery(url), "/"))

HasNoExtension(url) == "." \notin Range(LastPathSegment(url))

C13_ExtensionFallback ==
    PlansReturned =>
        \A i \in 1..Len(value) :
            HasNoExtension(applied.plannings[i].primaryUrl)
                => EndsWith(value[i].outputFileName, <<".">> \o DefaultExtension)


(***************************************************************************)
(* C14  Filename stability.  In default mode and in legacy mode, two       *)
(* plannings that use the same block identifier and the same naming mode   *)
(* produce the same outputFileName, whatever the primary URL and the page  *)
(* slug are in each planning.                                              *)
(***************************************************************************)
BothPlanned == PlansReturned /\ Len(value) = MaxPlannings

C14_FilenameStability ==
    BothPlanned => value[1].outputFileName = value[2].outputFileName

\* What the name is made of besides the block identifier: the extension of
\* the URL, and the page slug (default) or the last UUID of the URL, the URL
\* before its query when it holds none (legacy).
UrlExtension(planning) == Last(SplitChar(UrlBeforeQuery(planning.primaryUrl), "."))

LastUuidOrUrl(planning) ==
    LET url == UrlBeforeQuery(planning.primaryUrl)
        at == {i \in 1..Len(url) : UuidAt(url, i)}
    IN  IF at = {} THEN url ELSE SubSeq(url, SetMax(at), SetMax(at) + UuidLength - 1)

SameNameParts ==
    /\ UrlExtension(applied.plannings[1]) = UrlExtension(applied.plannings[2])
    /\ IF applied.imageFileNameFormat = "default"
       THEN applied.plannings[1].slug = applied.plannings[2].slug
       ELSE LastUuidOrUrl(applied.plannings[1]) = LastUuidOrUrl(applied.plannings[2])

\* The claim with what the code asks for: the same slug and extension in
\* default mode, the same last UUID (or URL) and extension in legacy mode.
C14_StableForSameNameParts ==
    (BothPlanned /\ SameNameParts) => value[1].outputFileName = value[2].outputFileName

\* Two legacy plannings of URLs that differ and hold the same UUID.
C14_Witness ==
    /\ BothPlanned
    /\ SameNameParts
    /\ applied.imageFileNameFormat = "legacy"
    /\ applied.plannings[1].primaryUrl # applied.plannings[2].primaryUrl
    /\ UrlBeforeQuery(applied.plannings[1].primaryUrl)
           # UrlBeforeQuery(applied.plannings[2].primaryUrl)


(***************************************************************************)
(* C15  The localized output path is i18n/<localeCode>/docusaurus-plugin-  *)
(* content-docs/current/<relativeFolderPath>/<outputFileName> with         *)
(* duplicate separators collapsed: for every relative folder path (empty,  *)
(* "/", with leading or trailing slashes) the path holds no two            *)
(* consecutive "/" characters, and names the file of that form.            *)
(***************************************************************************)
NewPathReturned == applied.fn = "saveLocalizedImages" /\ value # NotReturned

UncollapsedPath ==
    I18nDirectory \o applied.iso632Code \o DocsCurrentDirectory
        \o applied.relativeFilePathToFolderContainingPage \o <<"/">> \o applied.outputFileName

C15_SeparatorsCollapsed ==
    NewPathReturned =>
        /\ \A i \in 1..Len(value[1]) : ~OccursAt(value[1], <<"/", "/">>, i)
        /\ PosixNormalize(value[1]) = PosixNormalize(UncollapsedPath)


(***************************************************************************)
(* C16  TranslationService.translateMarkdown never raises: for any failure *)
(* (unsupported provider, provider call error, empty provider reply) it    *)
(* returns success false, translatedContent equal to the input content and *)
(* error set to the message of the failure; on success it returns success  *)
(* true with the text of the provider.                                     *)
(***************************************************************************)
TranslateMarkdownReturned == applied.fn = "translateMarkdown" /\ value # NotReturned

Supported == applied.this.options.provider \in {"openai", "anthropic"}

CallRejected == Supported /\ applied.reply.kind = "rejects"

\* The text of the reply: that of its first block, a text block.
ProviderText ==
    IF applied.reply.blocks # <<>> /\ applied.reply.blocks[1].type = "text"
    THEN applied.reply.blocks[1].text ELSE ""

EmptyReply == Supported /\ applied.reply.kind = "resolves" /\ ProviderText = ""

TranslationFails == ~Supported \/ CallRejected \/ EmptyReply

FailureMessage ==
    IF ~Supported THEN "Unsupported translation provider: " \o applied.this.options.provider
    ELSE IF CallRejected THEN applied.reply.error.message
    ELSE IF applied.this.options.provider = "openai" THEN "No translation received from OpenAI"
    ELSE "No translation received from Anthropic"

C16_TranslateMarkdownNeverRaises ==
    TranslateMarkdownReturned =>
        /\ ~value[1].threw
        /\ IF TranslationFails
           THEN /\ value[1].result.success = FALSE
                /\ value[1].result.translatedContent = applied.content
                /\ value[1].result.error = FailureMessage
           ELSE /\ value[1].result.success = TRUE
                /\ value[1].result.translatedContent = ProviderText

\* A call the provider has rejected, answered with the content it was given.
C16_Witness ==
    /\ TranslateMarkdownReturned
    /\ CallRejected
    /\ value[1].result.success = FALSE
    /\ value[1].result.translatedContent = applied.content


(***************************************************************************)
(* C17  TranslationPlugin.translateGeneratedContent performs no directory  *)
(* listing, no translation call and no file write when the plugin is       *)
(* disabled, when the API key is empty, or when the list of target         *)
(* languages is empty; it returns normally in each case.                   *)
(***************************************************************************)
GeneratedContentReturned == applied.fn = "translateGeneratedContent" /\ value # NotReturned

NothingToTranslate ==
    \/ ~applied.this.options.enabled
    \/ applied.this.options.apiKey = ""
    \/ applied.this.options.targetLanguages = <<>>

ListingTranslationOrWrite ==
    {"readdir", "readdir_failed", "readFile", "readFile_failed", "translate", "writeFile",
     "writeFile_failed", "copy", "ensureDir"}

C17_SkipsWithoutEffect ==
    (GeneratedContentReturned /\ NothingToTranslate) =>
        /\ ~value[1].threw
        /\ \A k \in 1..Len(value[1].events) : value[1].events[k].op \notin ListingTranslationOrWrite

\* An enabled plugin without API key, on a source tree that is there and has
\* pages to translate.
C17_Witness ==
    /\ GeneratedContentReturned
    /\ applied.this.options.enabled
    /\ applied.this.options.apiKey = ""
    /\ applied.this.options.targetLanguages # <<>>
    /\ applied.env.sourceExists
    /\ applied.env.tree # <<>>
    /\ applied.env.fault = "none"
    /\ value[1].events = <<>>


(***************************************************************************)
(* C18  TranslationPlugin.validateOptions returns an empty list exactly    *)
(* when the plugin is disabled or all of these hold: the provider is       *)
(* openai or anthropic, apiKey is not blank, sourceLanguage is not blank,  *)
(* targetLanguages is not empty and does not contain sourceLanguage;       *)
(* otherwise the list holds one message per violated rule.                 *)
(***************************************************************************)
OptionsValidated == applied.fn = "validateOptions" /\ value # NotReturned

BlankText(text) == \A i \in 1..Len(text) : SubSeq(text, i, i) \in {" ", "\t"}

\* The messages of the rules the options violate.
ViolatedRules ==
    (IF applied.options.provider \notin {"openai", "anthropic"} THEN {ProviderMessage} ELSE {})
        \cup (IF BlankText(applied.options.apiKey) THEN {ApiKeyMessage} ELSE {})
        \cup (IF BlankText(applied.options.sourceLanguage) THEN {SourceLanguageMessage} ELSE {})
        \cup (IF applied.options.targetLanguages = <<>> THEN {TargetLanguagesMessage} ELSE {})
        \cup (IF \E i \in 1..Len(applied.options.targetLanguages) :
                    applied.options.targetLanguages[i] = applied.options.sourceLanguage
              THEN {SourceAmongTargetsMessage} ELSE {})

C18_ValidateOptions ==
    OptionsValidated =>
        /\ (value[1] = <<>>) <=> (~applied.options.enabled \/ ViolatedRules = {})
        /\ applied.options.enabled =>
               /\ Range(value[1]) = ViolatedRules
               /\ Len(value[1]) = Cardinality(ViolatedRules)

\* Enabled options that violate three rules at once, a key of spaces among
\* them.
C18_Witness ==
    /\ OptionsValidated
    /\ applied.options.enabled
    /\ applied.options.apiKey = "  "
    /\ Len(value[1]) = 3


(***************************************************************************)
(* C19  standardHeadingTransformer shifts heading levels down by one and   *)
(* adds an anchor: a heading block of level N in 1..3 with id I is         *)
(* rendered as a markdown heading of level N+1 (N+1 '#' characters) with   *)
(* the heading text, followed by " {#<I with every dash removed>}".        *)
(***************************************************************************)
HeadingRendered == applied.fn = "standardHeadingTransformer" /\ value # NotReturned

LevelOfApplied == CHOOSE n \in HeadingLevels : applied.block.type = HeadingKey(n)

RECURSIVE Hashes(_)
Hashes(n) == IF n = 0 THEN "" ELSE "#" \o Hashes(n - 1)

RECURSIVE WithoutDashes(_)
WithoutDashes(chars) ==
    IF chars = <<>> THEN ""
    ELSE (IF Head(chars) = "-" THEN "" ELSE Head(chars)) \o WithoutDashes(Tail(chars))

C19_HeadingShiftedWithAnchor ==
    HeadingRendered =>
        value[1] = Hashes(LevelOfApplied + 1) \o " "
                       \o StrConcat(applied.block.data[applied.block.type].rich_text)
                       \o " {#" \o WithoutDashes(Chars(applied.block.id)) \o "}"

\* A heading of level 3 whose id holds dashes, rendered at level 4.
C19_Witness ==
    /\ HeadingRendered
    /\ LevelOfApplied = 3
    /\ applied.block.id = "23ffa6da-3fef-801c-8982-ee61757836e8"
    /\ value[1] = "#### Heading 3 Test {#23ffa6da3fef801c8982ee61757836e8}"


(***************************************************************************)
(* C20  An override of the caption takes effect: when the caption gives an *)
(* override URL for a locale of the configured list, forceRefreshImages is *)
(* false and the file of that locale is not there before the block is      *)
(* processed, then after processImageBlock the file at the path of that    *)
(* locale holds the bytes fetched from the override URL, not those of the  *)
(* primary image.                                                          *)
(***************************************************************************)
OverrideEntries ==
    {j \in 1..Len(last.imageSet.localizedUrls) :
        /\ last.imageSet.localizedUrls[j].url # ""
        /\ \E i \in 1..Len(locales.list) :
               locales.list[i] = last.imageSet.localizedUrls[j].iso632Code}

\* The bytes the URL has given in the last call.
BytesFetchedFrom(url) ==
    {last.events[f].bytes : f \in {g \in 1..Len(last.events) :
        /\ last.events[g].op = "fetch"
        /\ last.events[g].target = url
        /\ last.events[g].info # "rejected"}}

C20_OverrideTakesEffect ==
    (last.op = "process" /\ last.err = "" /\ ~ForceRefresh) =>
        \A j \in OverrideEntries :
            FsKeyTable[LastLocalizedPath(j)] \notin DOMAIN last.filesBefore
                => /\ FsKeyTable[LastLocalizedPath(j)] \in DOMAIN disk
                   /\ disk[FsKeyTable[LastLocalizedPath(j)]]
                          \in BytesFetchedFrom(last.imageSet.localizedUrls[j].url)

(***************************************************************************)
(* C21  In the default and legacy formats without forced refresh, when the *)
(* primary output file is there before the call, processImageBlock does    *)
(* not write the primary output path, and it fetches the primary URL only  *)
(* if some localized entry with an empty override URL has no locale file;  *)
(* where there is no such entry the primary URL is not fetched.            *)
(***************************************************************************)
\* The last call processed a block whose primary file was there, under a
\* format that plans the path first and without forced refresh.
PrimaryWasThere ==
    /\ last.op = "process" /\ EarlyFormat /\ ~ForceRefresh
    /\ last.imageSet.primaryFileOutputPath # ""
    /\ FsKeyTable[last.imageSet.primaryFileOutputPath] \in DOMAIN last.filesBefore

\* The localized entries that fall back to the primary image and whose file
\* was not there before the call.
MissingFallbackEntries ==
    {j \in 1..Len(last.imageSet.localizedUrls) :
        /\ last.imageSet.localizedUrls[j].url = ""
        /\ FsKeyTable[LastLocalizedPath(j)] \notin DOMAIN last.filesBefore}

LastTriedToWrite(path) ==
    \E i \in 1..Len(last.events) :
        last.events[i].op \in {"write", "write_failed"} /\ last.events[i].target = path

C21_SkippedPrimaryIsNotWritten ==
    PrimaryWasThere
        => /\ ~LastTriedToWrite(last.imageSet.primaryFileOutputPath)
           /\ LastFetched(last.imageSet.primaryUrl) => MissingFallbackEntries # {}
           /\ disk[FsKeyTable[last.imageSet.primaryFileOutputPath]]
                  = last.filesBefore[FsKeyTable[last.imageSet.primaryFileOutputPath]]

\* A call that found the primary file, fetched the primary URL for the copy
\* of a locale and wrote that copy.
C21_Witness ==
    /\ PrimaryWasThere /\ last.err = ""
    /\ LastFetched(last.imageSet.primaryUrl)
    /\ \E j \in MissingFallbackEntries : LastWrote(LastLocalizedPath(j))
    /\ ~LastWrote(last.imageSet.primaryFileOutputPath)

(***************************************************************************)
(* C22  Within the processing of one block the primary URL is fetched at   *)
(* most once, in every format and for any number of localized entries that *)
(* fall back to the primary image: the bytes read are reused for every     *)
(* later fallback entry.                                                   *)
(***************************************************************************)
\* The positions of the trace of the last call at which url was fetched.
FetchPositions(url) ==
    {i \in 1..Len(last.events) : last.events[i].op = "fetch" /\ last.events[i].target = url}

\* The fallback entries whose copy the last call wrote, those left out whose
\* path an override entry of the same locale writes too.
WrittenFallbackEntries ==
    {j \in 1..Len(last.imageSet.localizedUrls) :
        /\ last.imageSet.localizedUrls[j].url = ""
        /\ LastWrote(LastLocalizedPath(j))
        /\ \A k \in 1..Len(last.imageSet.localizedUrls) :
               last.imageSet.localizedUrls[k].url # ""
                   => LastLocalizedPath(k) # LastLocalizedPath(j)}

C22_PrimaryFetchedAtMostOnce ==
    last.op = "process"
        => /\ Cardinality(FetchPositions(last.imageSet.primaryUrl)) <= 1
           /\ \A j \in WrittenFallbackEntries :
                  \A i \in 1..Len(last.events) :
                      (last.events[i].op = "write" /\ last.events[i].target = LastLocalizedPath(j))
                          => /\ FetchPositions(last.imageSet.primaryUrl) # {}
                             /\ \A f \in FetchPositions(last.imageSet.primaryUrl) :
                                    f < i /\ last.events[i].bytes = last.events[f].bytes

\* A call that skipped the primary download and wrote the copies of two
\* locales from one fetch of the primary URL.
C22_Witness ==
    /\ last.op = "process" /\ last.err = ""
    /\ Cardinality(WrittenFallbackEntries) >= 2
    /\ \E i \in 1..Len(last.events) :
           last.events[i].op = "precheck" /\ last.events[i].info = "skip"
    /\ Cardinality(FetchPositions(last.imageSet.primaryUrl)) = 1

(***************************************************************************)
(* C23  Step order.  In the content-hash format the primary URL is fetched *)
(* first, before the output path is planned and before any existence       *)
(* check, also when the target file is there; in the default and legacy    *)
(* formats the output path is planned and the existence of the primary     *)
(* file is checked before any fetch is issued.                             *)
(***************************************************************************)
\* The positions of the trace of the last call that hold a step op.
PositionsOf(op) == {i \in 1..Len(last.events) : last.events[i].op = op}

FetchSteps == PositionsOf("fetch")

\* The lookups of the primary file in the output tree.
PrimaryLookups ==
    {i \in PositionsOf("exists") :
        last.events[i].target = last.imageSet.primaryFileOutputPath}

\* The content-hash half: the trace starts with the fetch of the primary
\* URL, so that every plan, lookup and decision comes after it.
FetchComesFirst ==
    last.events # <<>>
        => /\ last.events[1].op = "fetch"
           /\ last.events[1].target = last.imageSet.primaryUrl

\* As the claim states it: in the early formats a plan and a lookup of the
\* primary file come before every fetch.
C23_StepOrder ==
    last.op = "process"
        => IF EarlyFormat
           THEN \A f \in FetchSteps :
                    /\ \E p \in PositionsOf("plan") : p < f
                    /\ \E e \in PrimaryLookups : e < f
           ELSE FetchComesFirst

\* The decisions of line 132 on the primary path.
PrimaryPrechecks ==
    {i \in PositionsOf("precheck") :
        last.events[i].target = last.imageSet.primaryFileOutputPath}

\* With the lookup of the early formats where the code makes it: the
\* condition of line 132 is decided before every fetch, and it looks the
\* file up only when no refresh is forced.
C23_StepOrderUnlessForced ==
    last.op = "process"
        => IF EarlyFormat
           THEN /\ \A f \in FetchSteps :
                       /\ \E p \in PositionsOf("plan") : p < f
                       /\ \E d \in PrimaryPrechecks : d < f
                       /\ ~ForceRefresh => \E e \in PrimaryLookups : e < f
                /\ ForceRefresh => PositionsOf("exists") = {}
           ELSE FetchComesFirst

\* A content-hash call that fetched the primary URL first although its
\* target file was there, and then skipped the write.
C23_Witness ==
    /\ last.op = "process" /\ last.err = "" /\ ~EarlyFormat /\ ~ForceRefresh
    /\ FsKeyTable[last.imageSet.primaryFileOutputPath] \in DOMAIN last.filesBefore
    /\ last.events[1].op = "fetch"
    /\ PositionsOf("plan") # {} /\ PrimaryLookups # {}
    /\ ~LastWrote(last.imageSet.primaryFileOutputPath)

(***************************************************************************)
(* C24  Deletion is deferred to the end of the run.  A processImageBlock   *)
(* deletes no file and adds no entry to the registry of paths not seen yet *)
(* (it leaves the registry as it is or takes paths out of it); a file goes *)
(* away only in a step of cleanupOldImages, and only if its path is in the *)
(* registry when cleanupOldImages is called.                               *)
(***************************************************************************)
\* The files a step takes out of the output tree.
FilesDeleted == (DOMAIN disk) \ (DOMAIN disk')

ProseLinesWithUrl(lines) ==
    SelectSeq(lines, LAMBDA l : /\ ~IsLocaleLine(l)
                                /\ \E u \in 1..Len(l) : OccursAt(l, HttpsPrefix, u))

C25_ProseLinesAreKept ==
    ParseReturned =>
        /\ Len(AddedEntries) = Len(LocaleLinesOf(applied.lines))
        /\ \A i \in 1..Len(ProseLinesWithUrl(applied.lines)) :
               \E u \in 1..Len(value[1].caption) :
                   OccursAt(value[1].caption, ProseLinesWithUrl(applied.lines)[i], u)

(***************************************************************************)
(* C26  Default naming.  outputFileName is <slug>.<blockId>.<ext> when the *)
(* page slug is not empty (one leading "/" of the slug removed) and        *)
(* <blockId>.<ext> when it is empty, ext being the text after the last "." *)
(* of the URL before its query string; the name is computed without the    *)
(* downloaded bytes.                                                       *)
(***************************************************************************)
\* The URL up to its first "?".
BeforeFirstQuestionMark(url) ==
    LET marks == {i \in 1..Len(url) : url[i] = "?"}
    IN  IF marks = {} THEN url ELSE SubSeq(url, 1, SetMin(marks) - 1)

\* The text behind the last "." of s, all of s when it holds none.
TextAfterLastDot(s) ==
    LET dots == {i \in 1..Len(s) : s[i] = "."}
    IN  IF dots = {} THEN s ELSE SubSeq(s, SetMax(dots) + 1, Len(s))

SlugWithoutLeadingSlash(slug) ==
    IF slug # <<>> /\ Head(slug) = "/" THEN Tail(slug) ELSE slug

\* The name of the claim for a planning, with the extension ext.
DefaultNameWith(planning, ext) ==
    IF planning.slug # <<>>
    THEN SlugWithoutLeadingSlash(planning.slug) \o <<".">> \o applied.imageBlockId
             \o <<".">> \o ext
    ELSE applied.imageBlockId \o <<".">> \o ext

DefaultPlansReturned == PlansReturned /\ applied.imageFileNameFormat = "default"

ExtensionOrPng(url) ==
    IF TextAfterLastDot(BeforeFirstQuestionMark(url)) = <<>>
    THEN <<"p","n","g">>
    ELSE TextAfterLastDot(BeforeFirstQuestionMark(url))

LegacyPlansReturned == PlansReturned /\ applied.imageFileNameFormat = "legacy"

\* What the claim says is hashed: the last UUID of the URL before the query
\* string, or that URL.
HashedPart(url) ==
    LET before == BeforeFirstQuestionMark(url)
        at == {i \in 1..Len(before) : UuidAt(before, i)}
    IN  IF at = {} THEN before ELSE SubSeq(before, SetMax(at), SetMax(at) + UuidLength - 1)

HoldsUuid(url) == \E i \in 1..Len(url) : UuidAt(BeforeFirstQuestionMark(url), i)

\* What the claim makes the name of: for each URL that is planned, the URL
\* before its query string, whether it holds a UUID, the part that is
\* hashed, and the name.
LegacySources ==
    [u \in PlanUrls |->
        [before |-> BeforeFirstQuestionMark(u),
         uuid |-> HoldsUuid(u),
         part |-> HashedPart(u),
         ext |-> ExtensionOrPng(u),
         name |-> hashOfString(HashedPart(u)) \o <<".">> \o ExtensionOrPng(u)]]

\* Two URLs that are to get one name.
SameLegacySource(u, v) ==
    \/ LegacySources[u].before = LegacySources[v].before
    \/ /\ LegacySources[u].uuid /\ LegacySources[v].uuid
       /\ LegacySources[u].part = LegacySources[v].part
       /\ LegacySources[u].ext = LegacySources[v].ext

C27_LegacyName ==
    LegacyPlansReturned =>
        /\ \A i \in 1..Len(value) :
               /\ value[i].outputFileName = LegacySources[applied.plannings[i].primaryUrl].name
               /\ Len(value[i].outputFileName)
                      = 8 + 1 + Len(LegacySources[applied.plannings[i].primaryUrl].ext)
               /\ \A k \in 1..8 : IsHexChar(value[i].outputFileName[k])
        /\ \A i, j \in 1..Len(value) :
               SameLegacySource(applied.plannings[i].primaryUrl, applied.plannings[j].primaryUrl)
                   => value[i].outputFileName = value[j].outputFileName

\* Two legacy plannings, of URLs that differ in their query string only: one
\* name, made of the digest of the URL before the query.
C27_Witness ==
    /\ LegacyPlansReturned /\ Len(value) = 2
    /\ applied.plannings[1].primaryUrl = UrlA
    /\ applied.plannings[2].primaryUrl = UrlAOtherQuery
    /\ value[1].outputFileName = value[2].outputFileName
    /\ value[1].outputFileName = hashOfString(Chars("https://h/a.png")) \o Chars(".png")

(***************************************************************************)
(* C28  parseImageBlock seeds localizedUrls with exactly one entry for     *)
(* each configured locale, in the configured order and with an empty url,  *)
(* before it looks at a caption line; the entries of the caption's         *)
(* override lines come behind these; and neither parsing nor processing    *)
(* changes the configured list of locales.                                 *)
(***************************************************************************)
\* The localized images of the block of the last call start with one
\* placeholder for each configured locale, in order.
SeededInOrder ==
    /\ Len(last.imageSet.localizedUrls) >= Len(locales.list)
    /\ \A i \in 1..Len(locales.list) :
           last.imageSet.localizedUrls[i] = [iso632Code |-> locales.list[i], url |-> ""]

\* What comes behind the placeholders has the URL of a caption line.
OverridesBehind ==
    \A i \in (Len(locales.list) + 1)..Len(last.imageSet.localizedUrls) :
        last.imageSet.localizedUrls[i].url # ""

C28_SeededPerLocale ==
    /\ []((last.op = "process" /\ locales.defined) => (SeededInOrder /\ OverridesBehind))
    /\ [][locales.defined => locales' = locales]_vars

\* A block with an override line processed under two configured locales: two
\* placeholders and the override behind them.
C28_Witness ==
    /\ last.op = "process" /\ locales.defined
    /\ Len(locales.list) = 2
    /\ Len(last.imageSet.localizedUrls) = 3
    /\ last.imageSet.localizedUrls[3].url # ""

(***************************************************************************)
(* C29  NotionPageCache.  isPageInCacheAndUpToDate(id, t) is true exactly  *)
(* when the cache has an entry for id and t <= its lastEditedTime in       *)
(* string order; a page neither added nor loaded is never reported up to   *)
(* date; addPage(id, t) replaces the entry of id only (the last call wins, *)
(* the entries of the other pages stay), so that after it a query (id, t2) *)
(* is true iff t2 <= t.                                                    *)
(***************************************************************************)
PageCacheBuilt == applied.fn = "NotionPageCache"

Queried == PageCacheBuilt /\ value.call.op = "isPageInCacheAndUpToDate"

Added == PageCacheBuilt /\ value.call.op = "addPage"

C29_PageCache ==
    /\ Queried =>
           /\ value.call.result
                  <=> /\ value.call.pageId \in DOMAIN value.call.cacheBefore
                      /\ StringLessOrEqual(value.call.lastEditedTime,
                             value.call.cacheBefore[value.call.pageId].lastEditedTime)
           /\ value.call.pageId \notin value.known => ~value.call.result
           /\ value.cache = value.call.cacheBefore
    /\ Added =>
           /\ value.cache[value.call.pageId] = [lastEditedTime |-> value.call.lastEditedTime]
           /\ DOMAIN value.cache = DOMAIN value.call.cacheBefore \cup {value.call.pageId}
           /\ \A p \in DOMAIN value.call.cacheBefore :
                  p # value.call.pageId => value.cache[p] = value.call.cacheBefore[p]
           /\ \A t2 \in EditTimes :
                  isPageInCacheAndUpToDate(value.cache, value.call.pageId, t2)
                      <=> StringLessOrEqual(t2, value.call.lastEditedTime)

\* An addPage that gave a page which had a later time an earlier one, another
\* page being in the cache.
C29_Witness ==
    /\ Added
    /\ value.call.pageId \in DOMAIN value.call.cacheBefore
    /\ value.call.cacheBefore[value.call.pageId].lastEditedTime = Chars("2024-01-10")
    /\ value.call.lastEditedTime = Chars("2024-01-02")
    /\ Cardinality(DOMAIN value.cache) = 2
    /\ ~isPageInCacheAndUpToDate(value.cache, value.call.pageId, Chars("2024-01-10"))

(***************************************************************************)
(* C30  TranslationService.translateFile writes the target file only when  *)
(* the translation succeeded: when translateMarkdown reports success false *)
(* or the source cannot be read, no target file is created or overwritten  *)
(* and the result returned has success false; translateFile raises no      *)
(* error.                                                                  *)
(***************************************************************************)
TranslateFileReturned == applied.fn = "translateFile" /\ value # NotReturned

\* What translateMarkdown gives for the page of the call.
MarkdownResultOfFile ==
    translateMarkdown(applied.this, "# " \o applied.sourcePath, applied.sourcePath,
                      applied.env.reply).result

\* The steps of the call that touch the target: its directory made, the
\* file written (or the write begun).
TargetSteps ==
    {k \in 1..Len(value[1].events) :
        value[1].events[k].op \in {"ensureDir", "writeFile", "writeFile_failed", "copy"}}

SourceUnreadable == applied.env.fault = "readFile_fails"

C30_WritesOnlyOnSuccess ==
    TranslateFileReturned =>
        /\ ~value[1].threw
        /\ Len(value[1].results) = 1
        /\ (SourceUnreadable \/ ~MarkdownResultOfFile.success)
               => (TargetSteps = {} /\ ~value[1].results[1].success)
        /\ \A k \in 1..Len(value[1].events) :
               value[1].events[k].op = "writeFile"
                   => /\ value[1].events[k].path = applied.targetPath
                      /\ MarkdownResultOfFile.success
                      /\ value[1].results[1] = MarkdownResultOfFile

\* A page that was read and whose translation the provider rejected: the
\* failed result returned and the target not touched.
C30_Witness ==
    /\ TranslateFileReturned
    /\ applied.env.fault = "none"
    /\ applied.env.reply.kind = "rejects"
    /\ \E k \in 1..Len(value[1].events) : value[1].events[k].op = "translate"
    /\ ~value[1].results[1].success
    /\ TargetSteps = {}


(***************************************************************************)
(* One language's failure does not stop the others                         *)
(***************************************************************************)

\* The languages whose translation was ended, by a report or by the logged
\* failure, in the order of the run.
RECURSIVE LanguagesEnded(_)
LanguagesEnded(events) ==
    IF events = <<>> THEN <<>>
    ELSE IF Head(events).op \in {"language_failed", "report"}
         THEN <<Head(events).path>> \o LanguagesEnded(Tail(events))
         ELSE LanguagesEnded(Tail(events))

\* The call went past the check of the source directory, which exists.
ReachedTheLanguages ==
    /\ GeneratedContentReturned
    /\ ~SkipsTranslation(applied.this)
    /\ applied.env.sourceExists
    /\ applied.env.fault # "pathExists_fails"

\* C31: in translateGeneratedContent of an enabled plugin with a key and an
\* existing source directory, every target language of targetLanguages is
\* attempted, in the order of the list, whatever failed for a language before
\* it, and the call returns without throwing.
C31_EveryLanguageIsAttempted ==
    ReachedTheLanguages =>
        /\ ~value[1].threw
        /\ LanguagesEnded(value[1].events) = applied.this.options.targetLanguages

\* The first of two languages failed at its directory and the second one was
\* translated and reported.
C31_Witness ==
    /\ ReachedTheLanguages
    /\ applied.this.options.targetLanguages = <<"German", "French">>
    /\ applied.env.fault = "ensureDir_fails"
    /\ applied.env.faultyLanguage = "German"
    /\ applied.env.tree # <<>>
    /\ \E i, j \in 1..Len(value[1].events) :
          /\ i < j
          /\ value[1].events[i].op = "language_failed"
          /\ value[1].events[i].path = "German"
          /\ value[1].events[j].op = "report"
          /\ value[1].events[j].path = "French"


(***************************************************************************)
(* The list optimizer loses and reorders nothing                           *)
(***************************************************************************)
ListOptimized == applied.fn = "optimizeListProcessing" /\ value # NotReturned

\* The blocks with every list_item_group replaced by the blocks it holds.
RECURSIVE Ungrouped(_)
Ungrouped(blocks) ==
    IF blocks = <<>> THEN <<>>
    ELSE IF Head(blocks).type = LIST_ITEM_GROUP_TYPE
         THEN Head(blocks).list_item_group.children \o Ungrouped(Tail(blocks))
         ELSE <<Head(blocks)>> \o Ungrouped(Tail(blocks))

\* C32: for every block list, the result of optimizeListProcessing with each
\* list_item_group replaced by its children is the input, block by block in
\* the same order, and the result is never longer than the input.
C32_NothingLostOrReordered ==
    ListOptimized =>
        /\ Ungrouped(value[1]) = applied.blocks
        /\ Len(value[1]) <= Len(applied.blocks)

\* A list that ends in a run of list items came back shorter, with a group
\* as its last block.
C32_Witness ==
    /\ ListOptimized
    /\ Len(value[1]) < Len(applied.blocks)
    /\ value[1][Len(value[1])].type = LIST_ITEM_GROUP_TYPE
    /\ \E i \in 1..Len(value[1]) : value[1][i].type = "paragraph"


(***************************************************************************)
(* The thresholds of the list optimizer                                    *)
(***************************************************************************)
ListTypeNames == {"bulleted_list_item", "numbered_list_item", "to_do"}

\* The positions of the blocks that hold a list item.
ListPositions(blocks) == {i \in 1..Len(blocks) : blocks[i].type \in ListTypeNames}

\* The maximal runs of consecutive list items, each as its first and its
\* last position: a run starts behind a block that is no list item and ends
\* before the next one.
MaximalRuns(blocks) ==
    LET listed == ListPositions(blocks)
    IN  {<<a, CHOOSE b \in a..Len(blocks) : (a..b) \subseteq listed /\ (b + 1) \notin listed>> :
            a \in {i \in listed : (i - 1) \notin listed}}

RunLength(run) == run[2] - run[1] + 1

\* The positions that open a block of the expected result: all but those of
\* a long run behind its first.
OpeningPositions(blocks, longRuns) ==
    {i \in 1..Len(blocks) : \A run \in longRuns : ~(run[1] < i /\ i <= run[2])}

\* The place in the expected result of what opens at position i.
PlaceOf(opening, i) == Cardinality({j \in opening : j <= i})

\* The group expected for a long run.
ExpectedGroup(blocks, run) ==
    [type |-> "list_item_group",
     id |-> "group-" \o blocks[run[1]].id,
     has_children |-> FALSE,
     list_item_group |-> [children |-> SubSeq(blocks, run[1], run[2])]]

\* C33: an input of fewer than 10 blocks is returned unchanged; of 10 or
\* more blocks, every maximal run of consecutive list items of length 3 or
\* more becomes exactly one list_item_group block with the id "group-" and
\* the id of the run's first block, the runs of length 1 or 2 and the other
\* blocks stay as they are, and no group holds a block that is not a list
\* item.
C33_GroupingThresholds ==
    ListOptimized =>
        IF Len(applied.blocks) < 10
        THEN value[1] = applied.blocks
        ELSE LET longRuns == {run \in MaximalRuns(applied.blocks) : RunLength(run) >= 3}
                 opening == OpeningPositions(applied.blocks, longRuns)
             IN  /\ Len(value[1]) = Cardinality(opening)
                 /\ \A run \in longRuns :
                       value[1][PlaceOf(opening, run[1])] = ExpectedGroup(applied.blocks, run)
                 /\ \A i \in opening :
                       (\A run \in longRuns : run[1] # i) =>
                           value[1][PlaceOf(opening, i)] = applied.blocks[i]
                 /\ \A k \in 1..Len(value[1]) :
                       value[1][k].type = "list_item_group" =>
                           \A c \in 1..Len(value[1][k].list_item_group.children) :
                               value[1][k].list_item_group.children[c].type \in ListTypeNames

\* Ten or more blocks with a run of exactly three list items, which became a
\* group, and a run of two, which stayed.
C33_Witness ==
    /\ ListOptimized
    /\ Len(applied.blocks) >= 10
    /\ LET runs == MaximalRuns(applied.blocks)
           opening == OpeningPositions(applied.blocks, {run \in runs : RunLength(run) >= 3})
       IN  /\ \E run \in runs :
                 /\ RunLength(run) = 3
                 /\ value[1][PlaceOf(opening, run[1])].id = "group-" \o applied.blocks[run[1]].id
           /\ \E run \in runs :
                 /\ RunLength(run) = 2
                 /\ value[1][PlaceOf(opening, run[1])] = applied.blocks[run[1]]
                 /\ value[1][PlaceOf(opening, run[2])] = applied.blocks[run[2]]

=============================================================================
